---------------------------- MODULE Spec2Model ----------------------------
(***************************************************************************)
(* A model of the session-coordination layer of the group chat bot:       *)
(*   - MatchManager (src/match_manager.py): the per-condition queues, the  *)
(*     room registry and the two reverse indexes;                          *)
(*   - the /match poll and the websocket connect/disconnect paths of       *)
(*     src/main.py that read and write the registry;                       *)
(*   - ConversationContext (src/context_manager.py): the bounded message   *)
(*     log and the per-user profiles.                                      *)
(*                                                                         *)
(* Python dicts are functions whose DOMAIN is the set of keys, Python      *)
(* lists are sequences.  A call that raises leaves the mutations made      *)
(* before the raise in place and records the exception in call.outcome.    *)
(***************************************************************************)
EXTENDS Integers, Sequences, FiniteSets, TLC

VARIABLES
    group_size,             \* MatchManager.group_size
    admin_config,           \* the AdminConfig object: group_size, bot_enabled
    queues,                 \* MatchManager.queues: condition -> list of uid
    active_rooms,           \* MatchManager.active_rooms: room_id -> room data
    user_to_room,           \* MatchManager.user_to_room: uid -> room_id
    user_to_queue,          \* MatchManager.user_to_queue: uid -> condition
    conns,                  \* open websocket handlers: websocket -> room_id
    now,                    \* the clock read by datetime.now()
    call,                   \* the last call handled and how it ended
    conversation_contexts,  \* context_manager.conversation_contexts
    kw_history,             \* history: room -> sender -> every keyword appended
                            \* to the sender's profile, in append order
    ops,                    \* number of context operations performed
    handlers,               \* the locals of each open websocket_endpoint call
    tasks,                  \* the bot_reply_task coroutines created so far
    bot_instances,          \* bot_manager.bot_instances: room_id -> ChatBot
    bots,                   \* the ChatBot objects created so far
    inbox,                  \* websocket -> the frames its client received
    closed,                 \* the websockets whose client has gone away
    frames,                 \* number of inbound frames received so far
    messages_collection     \* db.database.messages_collection

vars == <<group_size, admin_config, queues, active_rooms, user_to_room,
          user_to_queue, conns, now, call,
          conversation_contexts, kw_history, ops,
          handlers, tasks, bot_instances, bots, inbox, closed, frames,
          messages_collection>>

matchVars == <<group_size, admin_config, queues, active_rooms, user_to_room,
               user_to_queue, conns>>

ctxVars == <<conversation_contexts, kw_history, ops>>

botVars == <<bot_instances, bots>>

chatVars == <<handlers, tasks, bot_instances, bots, inbox, closed, frames,
              messages_collection>>

----------------------------------------------------------------------------
(* Bounds of the model. *)

MaxGroupSize == 2
MaxQueueLen == 2
MaxNow == 1

Users == {"a", "b", "c"}
Conditions == {"default", "vip"}
RoomIds == {"r1", "r2"}
WebSockets == {"ws1", "ws2"}
GroupSizes == 1..MaxGroupSize

\* AdminConfig.__init__: group_size = 2
DefaultGroupSize == 2

\* AdminConfig.__init__ (no config file): the fields the model reads.
AdminConfig ==
    [group_size |-> DefaultGroupSize, bot_enabled |-> TRUE,
     bot_name |-> "Bot", bot_prompt |-> ""]

----------------------------------------------------------------------------
(* Python values. *)

None == "None"
EmptyDict == [k \in {} |-> None]

Put(d, k, v) == [x \in (DOMAIN d) \cup {k} |-> IF x = k THEN v ELSE d[x]]
Del(d, k) == [x \in (DOMAIN d) \ {k} |-> d[x]]

Range(s) == {s[i] : i \in DOMAIN s}
Contains(s, x) == \E i \in DOMAIN s : s[i] = x

\* Mutant of ListRemove: list.pop() instead of list.remove(x).
ListPop(s, x) == SubSeq(s, 1, Len(s) - 1)

\* list.remove(x): drops the first occurrence of x.
ListRemove(s, x) ==
    IF ~Contains(s, x) THEN s
    ELSE LET i == CHOOSE j \in DOMAIN s :
                      s[j] = x /\ \A k \in 1..(j - 1) : s[k] # x
         IN  SubSeq(s, 1, i - 1) \o SubSeq(s, i + 1, Len(s))

\* A room_id argument: a str, or (from match_group) a list.
StrArg(s) == [t |-> "str", v |-> s]
ListArg(l) == [t |-> "list", v |-> l]
NoneArg == [t |-> "none", v |-> None]

\* The fields of `call`; `members` is the list given to create_room.
Call(op, uid, condition, room_id, outcome, ret) ==
    [op |-> op, uid |-> uid, condition |-> condition, room_id |-> room_id,
     outcome |-> outcome, ret |-> ret, taken |-> FALSE, group |-> <<>>,
     text |-> None, members |-> <<>>]

\* A call that reached match_group: `taken` tells whether match_group took a
\* batch from the queue, `group` is that batch (its local `group`).
MatchCall(op, uid, condition, room_id, outcome, r) ==
    [op |-> op, uid |-> uid, condition |-> condition, room_id |-> room_id,
     outcome |-> outcome, ret |-> r.ret, taken |-> r.taken, group |-> r.group,
     text |-> None, members |-> <<>>]

----------------------------------------------------------------------------
(* Python strings.  A string is a TLA+ string; its i-th character is the   *)
(* one-character string SubSeq(s, i, i).                                   *)

CharAt(s, i) == SubSeq(s, i, i)

UpperCase == "ABCDEFGHIJKLMNOPQRSTUVWXYZ"
LowerCase == "abcdefghijklmnopqrstuvwxyz"
Whitespace == {" ", "\t", "\n", "\r"}

LowerChar(c) ==
    IF \E i \in 1..Len(UpperCase) : CharAt(UpperCase, i) = c
    THEN CharAt(LowerCase, CHOOSE i \in 1..Len(UpperCase) : CharAt(UpperCase, i) = c)
    ELSE c

\* str.lower()
RECURSIVE Lower(_)
Lower(s) ==
    IF s = "" THEN "" ELSE LowerChar(CharAt(s, 1)) \o Lower(Tail(s))

\* str.startswith(prefix)
StartsWith(s, prefix) ==
    Len(s) >= Len(prefix) /\ SubSeq(s, 1, Len(prefix)) = prefix

\* str.split(): the maximal runs of non-whitespace characters, in order.
RECURSIVE SplitFrom(_, _, _)
SplitFrom(s, i, word) ==
    IF i > Len(s)
    THEN IF word = "" THEN <<>> ELSE <<word>>
    ELSE IF CharAt(s, i) \in Whitespace
         THEN (IF word = "" THEN <<>> ELSE <<word>>) \o SplitFrom(s, i + 1, "")
         ELSE SplitFrom(s, i + 1, word \o CharAt(s, i))

Split(s) == SplitFrom(s, 1, "")

\* list[start:] for any integer start.
SliceFrom(l, start) ==
    LET from == IF start >= 0 THEN start
                ELSE IF Len(l) + start > 0 THEN Len(l) + start ELSE 0
    IN  SubSeq(l, from + 1, Len(l))

\* The orders in which list(set(...)) may enumerate the set S.
Orders(S) ==
    {o \in [1..Cardinality(S) -> S] : \A i, j \in DOMAIN o : o[i] = o[j] => i = j}

----------------------------------------------------------------------------
(* MatchManager *)

\* create_room(room_id, members=None): the whole body hangs under
\* `if members is None`; a list used as a dict key raises TypeError.
create_room(rooms, room_id, members, cfg, t) ==
    IF members.t = "none"
    THEN IF room_id.t = "list"
         THEN [active_rooms |-> rooms, exc |-> "TypeError", ret |-> None]
         ELSE [active_rooms |->
                   Put(rooms, room_id.v,
                       [members |-> <<>>,
                        ws_connections |-> <<>>,
                        created_at |-> t,
                        bot_enabled |-> cfg.bot_enabled]),
               exc |-> "", ret |-> room_id.v]
    ELSE [active_rooms |-> rooms, exc |-> "", ret |-> None]

\* Mutant of take_group: the newest arrivals instead of the oldest.
take_group_newest(queue, required_size) ==
    SubSeq(queue, Len(queue) - required_size + 1, Len(queue))

\* The batch match_group takes from the queue: queue[:required_size].
take_group(queue, required_size) == SubSeq(queue, 1, required_size)

\* match_group(condition)
match_group(qs, u2q, rooms, gs, cfg, t, condition) ==
    LET queue == IF condition \in DOMAIN qs THEN qs[condition] ELSE <<>>
    IN  IF Len(queue) < gs
        THEN [queues |-> qs, user_to_queue |-> u2q, active_rooms |-> rooms,
              taken |-> FALSE, group |-> <<>>, outcome |-> "waiting", ret |-> None]
        ELSE LET grp == take_group(queue, gs)
                 rest == SubSeq(queue, gs + 1, Len(queue))
                 qs1 == IF condition \in DOMAIN qs
                        THEN [qs EXCEPT ![condition] = rest] ELSE qs
                 cr == create_room(rooms, ListArg(grp), NoneArg, cfg, t)
             IN  IF cr.exc # ""
                 THEN [queues |-> qs1, user_to_queue |-> u2q,
                       active_rooms |-> cr.active_rooms,
                       taken |-> TRUE, group |-> grp,
                       outcome |-> cr.exc, ret |-> None]
                 ELSE [queues |-> qs1,
                       user_to_queue |->
                           [u \in (DOMAIN u2q) \ Range(grp) |-> u2q[u]],
                       active_rooms |-> cr.active_rooms,
                       taken |-> TRUE, group |-> grp,
                       outcome |-> "matched",
                       ret |-> IF Len(grp) > 1 THEN grp[2] ELSE None]

\* join_queue(uid, condition)
join_queue(qs, u2q, rooms, gs, cfg, t, uid, condition) ==
    LET qs0 == IF condition \in DOMAIN qs THEN qs ELSE Put(qs, condition, <<>>)
    IN  IF uid \in DOMAIN u2q
        THEN [queues |-> qs0, user_to_queue |-> u2q, active_rooms |-> rooms,
              taken |-> FALSE, group |-> <<>>,
              outcome |-> "already_queued", ret |-> None]
        ELSE LET qs1 == [qs0 EXCEPT ![condition] = Append(@, uid)]
                 u2q1 == Put(u2q, uid, condition)
             IN  IF Len(qs1[condition]) >= gs
                 THEN match_group(qs1, u2q1, rooms, gs, cfg, t, condition)
                 ELSE [queues |-> qs1, user_to_queue |-> u2q1,
                       active_rooms |-> rooms, taken |-> FALSE, group |-> <<>>,
                       outcome |-> "waiting", ret |-> None]

\* leave_queue(uid, condition)
leave_queue(qs, u2q, uid, condition) ==
    [queues |-> IF condition \in DOMAIN qs /\ Contains(qs[condition], uid)
                THEN [qs EXCEPT ![condition] = ListRemove(@, uid)]
                ELSE qs,
     user_to_queue |-> IF uid \in DOMAIN u2q THEN Del(u2q, uid) ELSE u2q]

\* Mutant of end_room: the room is deleted without the membership test.
end_room_unguarded(rooms, u2r, room_id) ==
    IF room_id \in DOMAIN rooms
    THEN [active_rooms |-> Del(rooms, room_id),
          user_to_room |->
              [u \in (DOMAIN u2r) \ Range(rooms[room_id].members) |-> u2r[u]],
          exc |-> ""]
    ELSE [active_rooms |-> rooms, user_to_room |-> u2r, exc |-> "KeyError"]

\* end_room(room_id)
end_room(rooms, u2r, room_id) ==
    IF room_id \in DOMAIN rooms
    THEN [active_rooms |-> Del(rooms, room_id),
          user_to_room |->
              [u \in (DOMAIN u2r) \ Range(rooms[room_id].members) |-> u2r[u]],
          exc |-> ""]
    ELSE [active_rooms |-> rooms, user_to_room |-> u2r, exc |-> ""]

----------------------------------------------------------------------------
(* bot_manager: ChatBot objects live in `bots`; a reference to one is its  *)
(* index there.                                                            *)

MaxBots == 2

\* websocket_endpoint: bot = None
NoBot == 0

DEFAULT_SYSTEM_PROMPT ==
    "You are a helpful, neutral conversational partner. "
    \o "Use clear and respectful language, ask clarifying questions when needed, "
    \o "and keep the conversation natural and balanced."

\* not s or s.strip() == ""
IsBlank(s) == \A i \in 1..Len(s) : CharAt(s, i) \in Whitespace

\* ChatBot.__init__(room_id, system_prompt)
ChatBot(room_id, system_prompt) ==
    [room_id |-> room_id,
     system_prompt |-> IF IsBlank(system_prompt) THEN DEFAULT_SYSTEM_PROMPT
                       ELSE system_prompt,
     conversation_history |-> <<>>]

\* get_or_create_bot(room_id, system_prompt); ret is the bot returned.
get_or_create_bot(instances, heap, room_id, system_prompt) ==
    LET prompt == IF IsBlank(system_prompt) THEN DEFAULT_SYSTEM_PROMPT
                  ELSE system_prompt
    IN  IF room_id \notin DOMAIN instances
        THEN [bot_instances |-> Put(instances, room_id, Len(heap) + 1),
              bots |-> Append(heap, ChatBot(room_id, prompt)),
              ret |-> Len(heap) + 1]
        ELSE [bot_instances |-> instances,
              bots |-> [heap EXCEPT ![instances[room_id]].system_prompt = prompt],
              ret |-> instances[room_id]]

\* Mutant of update_system_prompt: the new prompt is taken as it is.
update_system_prompt_raw(bot, new_prompt) ==
    [bot EXCEPT !.system_prompt = new_prompt]

\* ChatBot.update_system_prompt(new_prompt)
update_system_prompt(bot, new_prompt) ==
    [bot EXCEPT !.system_prompt = IF IsBlank(new_prompt)
                                  THEN DEFAULT_SYSTEM_PROMPT ELSE new_prompt]

\* update_all_bots_prompt(new_prompt): every registered bot whose prompt
\* differs is updated.
update_all_bots_prompt(instances, heap, new_prompt) ==
    [b \in DOMAIN heap |->
        IF (\E r \in DOMAIN instances : instances[r] = b)
               /\ heap[b].system_prompt # new_prompt
        THEN update_system_prompt(heap[b], new_prompt)
        ELSE heap[b]]

\* remove_bot(room_id)
remove_bot(instances, room_id) ==
    IF room_id \in DOMAIN instances THEN Del(instances, room_id) ELSE instances

----------------------------------------------------------------------------
(* A fan-out is one run of `for conn in connections: await conn.send_text`. *)
(* It iterates over the list object it found in the room: `live` tells     *)
(* whether that object is still the room's list, `frozen` is the object    *)
(* once the room was ended or re-created.  `start` is the list as the      *)
(* fan-out found it and `got` the connections it delivered to.             *)

NoFan ==
    [active |-> FALSE, room_id |-> None, frame |-> None, i |-> 0,
     live |-> FALSE, frozen |-> <<>>, start |-> <<>>, got |-> <<>>]

\* The list a fan-out iterates over.
Connections(fan, rooms) ==
    IF fan.live THEN rooms[fan.room_id].ws_connections ELSE fan.frozen

\* The fan-out of `frame` to the room, before its first send.
BeginFan(rooms, room_id, frame) ==
    IF room_id \in DOMAIN rooms
    THEN [active |-> TRUE, room_id |-> room_id, frame |-> frame, i |-> 0,
          live |-> TRUE, frozen |-> <<>>,
          start |-> rooms[room_id].ws_connections, got |-> <<>>]
    ELSE NoFan

\* Mutant of send_text: a failed send ends the fan-out.
send_text_raising(fan, target, box, gone) ==
    IF target \in gone
    THEN [fan |-> [fan EXCEPT !.active = FALSE], inbox |-> box]
    ELSE [fan |-> [fan EXCEPT !.i = @ + 1, !.got = Append(@, target)],
          inbox |-> [box EXCEPT ![target] = Append(@, fan.frame)]]

\* try: await conn.send_text(frame) / except Exception: a send to a
\* connection whose client has gone raises, and the loop goes on.
send_text(fan, target, box, gone) ==
    IF target \in gone
    THEN [fan |-> [fan EXCEPT !.i = @ + 1], inbox |-> box]
    ELSE [fan |-> [fan EXCEPT !.i = @ + 1, !.got = Append(@, target)],
          inbox |-> [box EXCEPT ![target] = Append(@, fan.frame)]]

\* One iteration of the loop: the next connection of the list, if any,
\* is sent the frame; the loop ends when the list is exhausted.
FanStep(fan, rooms, box, gone) ==
    LET connections == Connections(fan, rooms)
    IN  IF fan.active /\ fan.i < Len(connections)
        THEN send_text(fan, connections[fan.i + 1], box, gone)
        ELSE [fan |-> [fan EXCEPT !.active = FALSE], inbox |-> box]

\* The room's list object is replaced or dropped: the fan-outs that
\* iterate over it keep the object as it was.
DetachFan(fan, rooms, room_id) ==
    IF fan.active /\ fan.live /\ fan.room_id = room_id
    THEN [fan EXCEPT !.live = FALSE,
                     !.frozen = rooms[room_id].ws_connections]
    ELSE fan

DetachHandlers(hs, rooms, room_id) ==
    [w \in DOMAIN hs |-> [hs[w] EXCEPT !.fan = DetachFan(@, rooms, room_id)]]

DetachTasks(ts, rooms, room_id) ==
    [k \in DOMAIN ts |-> [ts[k] EXCEPT !.fan = DetachFan(@, rooms, room_id)]]

----------------------------------------------------------------------------
(* Actions of the matching and registry layer. *)

QueueLenOf(qs, condition) ==
    IF condition \in DOMAIN qs THEN Len(qs[condition]) ELSE 0

\* The effect of a join_queue or match_group result r on the manager.
ApplyMatch(r) ==
    /\ queues' = r.queues
    /\ user_to_queue' = r.user_to_queue
    /\ active_rooms' = r.active_rooms

JoinQueue(uid, condition) ==
    /\ QueueLenOf(queues, condition) < MaxQueueLen
    /\ LET r == join_queue(queues, user_to_queue, active_rooms, group_size,
                           admin_config, now, uid, condition)
       IN  /\ ApplyMatch(r)
           /\ call' = MatchCall("join_queue", uid, condition, None, r.outcome, r)
    /\ UNCHANGED <<group_size, admin_config, user_to_room, conns, now, ctxVars, chatVars>>

MatchGroup(condition) ==
    /\ LET r == match_group(queues, user_to_queue, active_rooms, group_size,
                            admin_config, now, condition)
       IN  /\ ApplyMatch(r)
           /\ call' = MatchCall("match_group", None, condition, None, r.outcome, r)
    /\ UNCHANGED <<group_size, admin_config, user_to_room, conns, now, ctxVars, chatVars>>

\* GET /match?uid=...
Match(uid) ==
    /\ QueueLenOf(queues, "default") < MaxQueueLen
    /\ IF /\ uid \in DOMAIN user_to_room
          /\ user_to_room[uid] \in DOMAIN active_rooms
       THEN LET members == active_rooms[user_to_room[uid]].members
                others == SelectSeq(members, LAMBDA m : m # uid)
            IN  /\ call' = Call("match", uid, "default", user_to_room[uid],
                                "matched",
                                IF others # <<>> THEN others[1] ELSE None)
                /\ UNCHANGED <<queues, user_to_queue, active_rooms>>
       ELSE LET r == join_queue(queues, user_to_queue, active_rooms,
                                group_size, admin_config, now, uid, "default")
            IN  /\ ApplyMatch(r)
                /\ call' = MatchCall("match", uid, "default",
                                     IF r.ret # None /\ uid \in DOMAIN user_to_room
                                     THEN user_to_room[uid] ELSE None,
                                     IF r.outcome = "TypeError" THEN "TypeError"
                                     ELSE IF r.ret # None THEN "matched"
                                     ELSE "waiting",
                                     r)
    /\ UNCHANGED <<group_size, admin_config, user_to_room, conns, now, ctxVars, chatVars>>

LeaveQueue(uid, condition) ==
    /\ LET r == leave_queue(queues, user_to_queue, uid, condition)
       IN  /\ queues' = r.queues
           /\ user_to_queue' = r.user_to_queue
    /\ call' = Call("leave_queue", uid, condition, None, "ok", None)
    /\ UNCHANGED <<group_size, admin_config, active_rooms, user_to_room,
                   conns, now, ctxVars, chatVars>>

CreateRoom(room_id, members) ==
    /\ LET r == create_room(active_rooms, StrArg(room_id), members,
                            admin_config, now)
       IN  /\ active_rooms' = r.active_rooms
           /\ call' = [Call("create_room", None, None, room_id,
                            IF r.exc # "" THEN r.exc ELSE "ok", r.ret)
                           EXCEPT !.members = IF members.t = "list"
                                              THEN members.v ELSE <<>>]
           /\ IF r.active_rooms # active_rooms /\ room_id \in DOMAIN active_rooms
              THEN /\ handlers' = DetachHandlers(handlers, active_rooms, room_id)
                   /\ tasks' = DetachTasks(tasks, active_rooms, room_id)
              ELSE UNCHANGED <<handlers, tasks>>
    /\ UNCHANGED <<group_size, admin_config, queues, user_to_room,
                   user_to_queue, conns, now, ctxVars, botVars, inbox,
                   closed, frames, messages_collection>>

EndRoom(room_id) ==
    /\ LET r == end_room(active_rooms, user_to_room, room_id)
       IN  /\ active_rooms' = r.active_rooms
           /\ user_to_room' = r.user_to_room
           /\ call' = Call("end_room", None, None, room_id,
                           IF r.exc # "" THEN r.exc
                           ELSE IF room_id \in DOMAIN active_rooms
                                THEN "ended" ELSE "absent",
                           None)
           /\ IF room_id \in DOMAIN active_rooms /\ r.exc = ""
              THEN /\ handlers' = DetachHandlers(handlers, active_rooms, room_id)
                   /\ tasks' = DetachTasks(tasks, active_rooms, room_id)
              ELSE UNCHANGED <<handlers, tasks>>
    /\ UNCHANGED <<group_size, admin_config, queues, user_to_queue,
                   conns, now, ctxVars, botVars, inbox, closed, frames,
                   messages_collection>>

\* POST /api/admin/config
SetAdminConfig(gs, enabled) ==
    /\ admin_config' = [admin_config EXCEPT !.group_size = gs,
                                            !.bot_enabled = enabled]
    /\ group_size' = gs
    /\ call' = Call("set_admin_config", None, None, None, "ok", None)
    /\ UNCHANGED <<queues, active_rooms, user_to_room, user_to_queue,
                   conns, now, ctxVars, chatVars>>

\* POST /api/admin/config with bot_name = name, the other fields as they are.
SetBotName(name) ==
    /\ admin_config' = [admin_config EXCEPT !.bot_name = name]
    /\ group_size' = admin_config.group_size
    /\ call' = [Call("set_admin_config", None, None, None, "ok", None)
                   EXCEPT !.text = name]
    /\ UNCHANGED <<queues, active_rooms, user_to_room, user_to_queue,
                   conns, now, ctxVars, chatVars>>

\* AdminConfig.set_group_size(size): self.group_size = size and the file is
\* saved; the manager's own group_size is not touched.
SetGroupSize(size) ==
    /\ admin_config' = [admin_config EXCEPT !.group_size = size]
    /\ call' = Call("set_group_size", None, None, None, "ok", None)
    /\ UNCHANGED <<group_size, queues, active_rooms, user_to_room,
                   user_to_queue, conns, now, ctxVars, chatVars>>

\* The locals of a websocket_endpoint call that waits for its first frame.
\* enabled_at_arrival is bot_enabled as it was when the frame being handled
\* arrived.
NewHandler(uid, bot) ==
    [uid |-> uid, bot |-> bot, pc |-> "receive", data |-> None, fan |-> NoFan,
     enabled_at_arrival |-> FALSE]

\* websocket_endpoint, up to the receive loop: accept, register the
\* connection if the room exists, fetch the bot if replies are enabled.
WsConnect(ws, room_id, uid) ==
    /\ ws \notin DOMAIN conns
    /\ ws \notin closed
    /\ (admin_config.bot_enabled /\ room_id \notin DOMAIN bot_instances)
           => Len(bots) < MaxBots
    /\ conns' = Put(conns, ws, room_id)
    /\ active_rooms' =
           IF room_id \in DOMAIN active_rooms
           THEN [active_rooms EXCEPT
                     ![room_id].ws_connections = Append(@, ws)]
           ELSE active_rooms
    /\ IF admin_config.bot_enabled
       THEN LET b == get_or_create_bot(bot_instances, bots, room_id,
                                       admin_config.bot_prompt)
            IN  /\ bot_instances' = b.bot_instances
                /\ bots' = b.bots
                /\ handlers' = Put(handlers, ws,
                                   NewHandler(uid, b.ret))
       ELSE /\ UNCHANGED botVars
            /\ handlers' = Put(handlers, ws,
                               NewHandler(uid, NoBot))
    /\ inbox' = Put(inbox, ws, <<>>)
    /\ call' = Call("ws_connect", uid, None, room_id, "ok", ws)
    /\ UNCHANGED <<group_size, admin_config, queues, user_to_room,
                   user_to_queue, now, ctxVars, tasks, closed, frames,
                   messages_collection>>

\* websocket_endpoint: receive_text raises (the client has gone or the
\* connection broke) and the finally block runs.
WsDisconnect(ws) ==
    /\ ws \in DOMAIN conns
    /\ handlers[ws].pc = "receive"
    /\ LET room_id == conns[ws]
       IN  /\ active_rooms' =
                  IF /\ room_id \in DOMAIN active_rooms
                     /\ Contains(active_rooms[room_id].ws_connections, ws)
                  THEN [active_rooms EXCEPT
                            ![room_id].ws_connections = ListRemove(@, ws)]
                  ELSE active_rooms
           /\ call' = Call("ws_disconnect", handlers[ws].uid, None, room_id,
                           "ok", ws)
    /\ conns' = Del(conns, ws)
    /\ handlers' = Del(handlers, ws)
    /\ closed' = closed \cup {ws}
    /\ UNCHANGED <<group_size, admin_config, queues, user_to_room,
                   user_to_queue, now, ctxVars, tasks, botVars, inbox, frames,
                   messages_collection>>

\* Time passes.
Tick ==
    /\ now < MaxNow
    /\ now' = now + 1
    /\ call' = Call("tick", None, None, None, "ok", None)
    /\ UNCHANGED <<matchVars, ctxVars, chatVars>>

----------------------------------------------------------------------------
(* The matching and registry layer as a state machine. *)

\* Nothing is connected, no bot exists and the message store is empty.
InitChatVars ==
    /\ handlers = EmptyDict
    /\ tasks = <<>>
    /\ bot_instances = EmptyDict
    /\ bots = <<>>
    /\ inbox = EmptyDict
    /\ closed = {}
    /\ frames = 0
    /\ messages_collection = <<>>

InitMatch ==
    /\ admin_config = AdminConfig
    /\ group_size = admin_config.group_size
    /\ queues = EmptyDict
    /\ active_rooms = EmptyDict
    /\ user_to_room = EmptyDict
    /\ user_to_queue = EmptyDict
    /\ conns = EmptyDict
    /\ now = 0
    /\ call = Call("init", None, None, None, "ok", None)
    /\ conversation_contexts = EmptyDict
    /\ kw_history = EmptyDict
    /\ ops = 0
    /\ InitChatVars

\* The registry is exercised from the fresh manager and from the manager
\* in which join_queue("a") has left "a" waiting.
InitRoom ==
    /\ admin_config = AdminConfig
    /\ group_size = admin_config.group_size
    /\ \/ queues = EmptyDict /\ user_to_queue = EmptyDict
       \/ LET r == join_queue(EmptyDict, EmptyDict, EmptyDict, group_size,
                              admin_config, 0, "a", "default")
          IN  queues = r.queues /\ user_to_queue = r.user_to_queue
    /\ active_rooms = EmptyDict
    /\ user_to_room = EmptyDict
    /\ conns = EmptyDict
    /\ now = 0
    /\ call = Call("init", None, None, None, "ok", None)
    /\ conversation_contexts = EmptyDict
    /\ kw_history = EmptyDict
    /\ ops = 0
    /\ InitChatVars

NextQueue ==
    \/ \E u \in Users, c \in Conditions : JoinQueue(u, c)
    \/ \E c \in Conditions : MatchGroup(c)
    \/ \E u \in Users : Match(u)
    \/ \E u \in Users, c \in Conditions : LeaveQueue(u, c)
    \/ \E gs \in GroupSizes : SetAdminConfig(gs, admin_config.bot_enabled)

SpecQueue == InitMatch /\ [][NextQueue]_vars

\* The queues with both ways of changing the group size.
NextConfig ==
    \/ \E u \in Users, c \in Conditions : JoinQueue(u, c)
    \/ \E c \in Conditions : MatchGroup(c)
    \/ \E gs \in GroupSizes : SetAdminConfig(gs, admin_config.bot_enabled)
    \/ \E gs \in GroupSizes : SetGroupSize(gs)

SpecConfig == InitMatch /\ [][NextConfig]_vars

NextRoom ==
    \/ \E r \in RoomIds, m \in {NoneArg, ListArg(<<"a">>)} : CreateRoom(r, m)
    \/ \E r \in RoomIds : EndRoom(r)
    \/ \E e \in BOOLEAN : SetAdminConfig(admin_config.group_size, e)
    \/ \E w \in WebSockets, r \in RoomIds : WsConnect(w, r, "a")
    \/ \E w \in WebSockets : WsDisconnect(w)
    \/ Tick

SpecRoom == InitRoom /\ [][NextRoom]_vars

----------------------------------------------------------------------------
(* ConversationContext *)

MAX_MESSAGES_PER_ROOM == 1000
MAX_KEYWORDS_PER_USER == 50

stopwords ==
    {"a", "an", "the", "and", "or", "but", "in", "on", "at", "to", "for",
     "of", "with", "by", "is", "am", "are", "was", "were", "be", "been",
     "being", "have", "has", "had", "do", "does", "did", "will", "would",
     "shall", "should", "may", "might", "must", "can", "could", "i", "you",
     "he", "she", "it", "we", "they", "me", "him", "her", "us", "them",
     "my", "your", "his", "its", "our", "their", "mine", "yours", "hers",
     "ours", "theirs", "this", "that", "these", "those", "here", "there",
     "what", "which", "who", "whom", "whose", "when", "where", "why", "how"}

\* Mutant of extract_keywords: the words are not lower-cased.
extract_keywords_keep_case(text) ==
    LET words == Split(text)
    IN  {words[i] : i \in {j \in DOMAIN words :
                              Len(words[j]) > 2 /\ words[j] \notin stopwords}}

\* _extract_keywords(text), before list(set(...)) fixes an order.
extract_keywords(text) ==
    LET words == Split(Lower(text))
    IN  {words[i] : i \in {j \in DOMAIN words :
                              Len(words[j]) > 2 /\ words[j] \notin stopwords}}

\* ConversationContext.__init__
NewContext(room_id, t) ==
    [room_id |-> room_id, messages |-> <<>>, user_profiles |-> EmptyDict,
     created_at |-> t, last_activity |-> t]

\* Mutant of evict_oldest: pop() instead of pop(0).
evict_newest(messages) == SubSeq(messages, 1, Len(messages) - 1)

\* add_message at capacity: messages.pop(0).
evict_oldest(messages) == Tail(messages)

\* Mutant of keep_recent: the oldest entries are kept.
keep_oldest(keywords, n) == SubSeq(keywords, 1, n)

\* add_message: profile["keywords"][-MAX_KEYWORDS_PER_USER:]
keep_recent(keywords, n) == SliceFrom(keywords, -n)

\* add_message: the sender is a real user, not the bot.
is_real_user(sender) == Lower(sender) # "bot" /\ ~StartsWith(sender, "Bot")

\* add_message(sender, text, timestamp) at time t; `keywords` is the list
\* _extract_keywords returned.
add_message(ctx, sender, text, timestamp, t, keywords) ==
    LET full == Len(ctx.messages) >= MAX_MESSAGES_PER_ROOM
        kept == IF full
                THEN LET rest == evict_oldest(ctx.messages)
                     IN  [i \in DOMAIN rest |-> [rest[i] EXCEPT !.turn = i]]
                ELSE ctx.messages
        message == [sender |-> sender, text |-> text, timestamp |-> timestamp,
                    turn |-> Len(kept) + 1]
        old == IF sender \in DOMAIN ctx.user_profiles
               THEN ctx.user_profiles[sender]
               ELSE [message_count |-> 0,
                     first_message |-> timestamp,
                     last_message |-> timestamp,
                     keywords |-> <<>>,
                     interaction_style |-> "neutral",
                     avg_message_length |-> <<0, 1>>,
                     total_chars |-> 0]
        extended == old.keywords \o keywords
        profile == [old EXCEPT
                       !.message_count = @ + 1,
                       !.last_message = timestamp,
                       !.total_chars = @ + Len(text),
                       !.avg_message_length =
                           <<old.total_chars + Len(text), old.message_count + 1>>,
                       !.keywords =
                           IF Len(extended) > MAX_KEYWORDS_PER_USER
                           THEN keep_recent(extended, MAX_KEYWORDS_PER_USER)
                           ELSE extended]
    IN  [ctx EXCEPT
            !.messages = Append(kept, message),
            !.last_activity = t,
            !.user_profiles = IF is_real_user(sender)
                              THEN Put(@, sender, profile) ELSE @]

\* clear_old_messages(keep_last)
clear_old_messages(ctx, keep_last) ==
    IF Len(ctx.messages) > keep_last
    THEN [ctx EXCEPT !.messages = SliceFrom(@, -keep_last)]
    ELSE ctx

\* sum(len(msg['text']) for msg in messages[lo..hi]), by halves.
RECURSIVE SumLen(_, _, _)
SumLen(messages, lo, hi) ==
    IF lo > hi THEN 0
    ELSE IF lo = hi THEN Len(messages[lo].text)
    ELSE LET mid == (lo + hi) \div 2
         IN  SumLen(messages, lo, mid) + SumLen(messages, mid + 1, hi)

\* get_statistics(): the counts.  average_message_length is the pair
\* <<total_chars, count>> it is rounded from; the fields derived from the
\* clock (duration, is_active) are left out.
get_statistics(ctx) ==
    LET total_chars == SumLen(ctx.messages, 1, Len(ctx.messages))
    IN  [room_id |-> ctx.room_id,
         total_messages |-> Len(ctx.messages),
         total_participants |-> Cardinality(DOMAIN ctx.user_profiles),
         total_characters |-> total_chars,
         average_message_length |->
             IF ctx.messages # <<>> THEN <<total_chars, Len(ctx.messages)>>
             ELSE <<0, 1>>,
         participant_messages |->
             [u \in DOMAIN ctx.user_profiles |->
                 ctx.user_profiles[u].message_count],
         created_at |-> ctx.created_at,
         last_activity |-> ctx.last_activity]

\* get_context_summary: the line of one message,
\* f"\n[{msg['turn']}] **{msg['sender']}**: {msg['text']}" without the newline.
summary_line(msg) ==
    "[" \o ToString(msg.turn) \o "] **" \o msg.sender \o "**: " \o msg.text

\* get_context_summary(num_messages): the lines of the messages it lists
\* and the counts its "### Recent {..} Messages:" headers show (no header
\* when there is no message); the other parts of the text are left out.
get_context_summary(ctx, num_messages) ==
    IF ctx.messages = <<>>
    THEN [headers |-> <<>>, lines |-> <<>>]
    ELSE LET recent == SliceFrom(ctx.messages, -num_messages)
         IN  [headers |-> <<IF num_messages < Len(recent) THEN num_messages
                            ELSE Len(recent)>>,
              lines |-> [i \in DOMAIN recent |-> summary_line(recent[i])]]

\* timedelta.seconds of a span of `total` whole seconds: what is left of it
\* when the whole days are taken out.
timedelta_seconds(total) == total % 86400

\* get_statistics(): "is_active", the clock reading t seconds.
is_active(ctx, t) == timedelta_seconds(t - ctx.last_activity) < 300

\* Mutant of to_dict: the counts are taken from the exported messages.
to_dict_of_export(ctx) ==
    LET exported == [ctx EXCEPT !.messages = SliceFrom(@, -100)]
    IN  [room_id |-> ctx.room_id,
         created_at |-> ctx.created_at,
         last_activity |-> ctx.last_activity,
         messages |-> exported.messages,
         user_profiles |-> ctx.user_profiles,
         total_turns |-> Len(exported.messages),
         active_participants |-> Cardinality(DOMAIN ctx.user_profiles),
         summary |-> get_statistics(exported)]

\* to_dict()
to_dict(ctx) ==
    [room_id |-> ctx.room_id,
     created_at |-> ctx.created_at,
     last_activity |-> ctx.last_activity,
     messages |-> SliceFrom(ctx.messages, -100),
     user_profiles |-> ctx.user_profiles,
     total_turns |-> Len(ctx.messages),
     active_participants |-> Cardinality(DOMAIN ctx.user_profiles),
     summary |-> get_statistics(ctx)]

\* The keyword history after add_message appended `keywords` for `sender`.
Appended(hist, sender, keywords) ==
    IF is_real_user(sender)
    THEN Put(hist, sender,
             (IF sender \in DOMAIN hist THEN hist[sender] ELSE <<>>) \o keywords)
    ELSE hist

----------------------------------------------------------------------------
(* Actions of the conversation contexts. *)

MaxOps == 2

Senders == {"alice", "Bot"}
Texts == {"hello", "hi there, how are you?", "ok", "Tea tea CUP"}
KeepLast == {0, 100}
ContextRooms == {"r1"}

\* get_or_create_context(room_id)
GetOrCreateContext(room_id) ==
    /\ ops < MaxOps
    /\ ops' = ops + 1
    /\ IF room_id \notin DOMAIN conversation_contexts
       THEN /\ conversation_contexts' =
                   Put(conversation_contexts, room_id, NewContext(room_id, now))
            /\ kw_history' = Put(kw_history, room_id, EmptyDict)
       ELSE /\ conversation_contexts' =
                   [conversation_contexts EXCEPT ![room_id].last_activity = now]
            /\ UNCHANGED kw_history
    /\ call' = Call("get_or_create_context", None, None, room_id, "ok", None)
    /\ UNCHANGED <<matchVars, now, chatVars>>

\* context.add_message(sender, text)
AddMessage(room_id, sender, text) ==
    /\ ops < MaxOps
    /\ ops' = ops + 1
    /\ room_id \in DOMAIN conversation_contexts
    /\ \E keywords \in Orders(extract_keywords(text)) :
          /\ conversation_contexts' =
                 [conversation_contexts EXCEPT
                     ![room_id] = add_message(@, sender, text, now, now, keywords)]
          /\ kw_history' =
                 [kw_history EXCEPT ![room_id] = Appended(@, sender, keywords)]
    /\ call' = [Call("add_message", sender, None, room_id, "ok", None)
                    EXCEPT !.text = text]
    /\ UNCHANGED <<matchVars, now, chatVars>>

\* context.clear_old_messages(keep_last)
ClearOldMessages(room_id, keep_last) ==
    /\ ops < MaxOps
    /\ ops' = ops + 1
    /\ room_id \in DOMAIN conversation_contexts
    /\ conversation_contexts' =
           [conversation_contexts EXCEPT
               ![room_id] = clear_old_messages(@, keep_last)]
    /\ call' = Call("clear_old_messages", None, None, room_id, "ok",
                    IF Len(conversation_contexts[room_id].messages) > keep_last
                    THEN Len(conversation_contexts[room_id].messages) - keep_last
                    ELSE 0)
    /\ UNCHANGED <<matchVars, now, kw_history, chatVars>>

\* context.to_dict()
ToDict(room_id) ==
    /\ ops < MaxOps
    /\ ops' = ops + 1
    /\ room_id \in DOMAIN conversation_contexts
    /\ call' = Call("to_dict", None, None, room_id, "ok",
                    to_dict(conversation_contexts[room_id]))
    /\ UNCHANGED <<matchVars, now, conversation_contexts, kw_history, chatVars>>

----------------------------------------------------------------------------
(* The conversation contexts as a state machine.  The log starts empty or  *)
(* as the context that 999 add_message calls have built, so that a  *)
(* few further calls reach the caps.                                       *)

InitialLogs == {0, MAX_MESSAGES_PER_ROOM - 1}

\* The context that n calls add_message("alice", "hello") at time 0 build on
\* NewContext("r1", 0), for n <= MAX_MESSAGES_PER_ROOM, and the keyword
\* history of those calls.
PopulatedContext(n) ==
    [NewContext("r1", 0) EXCEPT
        !.messages = [i \in 1..n |-> [sender |-> "alice", text |-> "hello",
                                      timestamp |-> 0, turn |-> i]],
        !.user_profiles =
            IF n = 0 THEN EmptyDict
            ELSE Put(EmptyDict, "alice",
                     [message_count |-> n,
                      first_message |-> 0,
                      last_message |-> 0,
                      keywords |->
                          [i \in 1..(IF n < MAX_KEYWORDS_PER_USER THEN n
                                     ELSE MAX_KEYWORDS_PER_USER) |-> "hello"],
                      interaction_style |-> "neutral",
                      avg_message_length |-> <<n * Len("hello"), n>>,
                      total_chars |-> n * Len("hello")])]

PopulatedHistory(n) ==
    IF n = 0 THEN EmptyDict
    ELSE Put(EmptyDict, "alice", [i \in 1..n |-> "hello"])

InitContext ==
    /\ admin_config = AdminConfig
    /\ group_size = admin_config.group_size
    /\ queues = EmptyDict
    /\ active_rooms = EmptyDict
    /\ user_to_room = EmptyDict
    /\ user_to_queue = EmptyDict
    /\ conns = EmptyDict
    /\ now = 0
    /\ call = Call("init", None, None, None, "ok", None)
    /\ ops = 0
    /\ InitChatVars
    /\ \E n \in InitialLogs :
          IF n = 0
          THEN conversation_contexts = EmptyDict /\ kw_history = EmptyDict
          ELSE /\ conversation_contexts = Put(EmptyDict, "r1", PopulatedContext(n))
               /\ kw_history = Put(EmptyDict, "r1", PopulatedHistory(n))

NextContext ==
    \/ \E r \in ContextRooms : GetOrCreateContext(r)
    \/ \E r \in ContextRooms, u \in Senders, x \in Texts : AddMessage(r, u, x)
    \/ \E r \in ContextRooms, k \in KeepLast : ClearOldMessages(r, k)
    \/ \E r \in ContextRooms : ToDict(r)
    \/ Tick

SpecContext == InitContext /\ [][NextContext]_vars

\* The seconds that pass between two operations on a context.
Spans == {0, 299, 300, 600, 86399, 86400, 86500, 86700}

\* context.get_statistics(), `span` seconds after the operation before.
GetStatistics(room_id, span) ==
    /\ ops < MaxOps
    /\ ops' = ops + 1
    /\ room_id \in DOMAIN conversation_contexts
    /\ now' = now + span
    /\ call' = Call("get_statistics", None, None, room_id, "ok",
                    is_active(conversation_contexts[room_id], now + span))
    /\ UNCHANGED <<matchVars, conversation_contexts, kw_history, chatVars>>

\* get_or_create_context(room_id) for a room that has a context, `span`
\* seconds after the operation before: last_activity = datetime.now().
TouchContext(room_id, span) ==
    /\ ops < MaxOps
    /\ ops' = ops + 1
    /\ room_id \in DOMAIN conversation_contexts
    /\ now' = now + span
    /\ conversation_contexts' =
           [conversation_contexts EXCEPT ![room_id].last_activity = now + span]
    /\ call' = Call("get_or_create_context", None, None, room_id, "ok", None)
    /\ UNCHANGED <<matchVars, kw_history, chatVars>>

\* The values of num_messages.
SummarySizes == {0, 1, 2, 10}

\* context.get_context_summary(num_messages)
GetContextSummary(room_id, num_messages) ==
    /\ room_id \in DOMAIN conversation_contexts
    /\ call' = Call("get_context_summary", None, None, room_id, "ok",
                    [num_messages |-> num_messages,
                     summary |-> get_context_summary(
                                     conversation_contexts[room_id],
                                     num_messages)])
    /\ UNCHANGED <<matchVars, now, ctxVars, chatVars>>

\* The statistics are exercised on the context that get_or_create_context
\* has just created for r1, the clock counting seconds.
InitActive ==
    /\ admin_config = AdminConfig
    /\ group_size = admin_config.group_size
    /\ queues = EmptyDict
    /\ active_rooms = EmptyDict
    /\ user_to_room = EmptyDict
    /\ user_to_queue = EmptyDict
    /\ conns = EmptyDict
    /\ now = 0
    /\ call = Call("get_or_create_context", None, None, "r1", "ok", None)
    /\ ops = 0
    /\ InitChatVars
    /\ conversation_contexts = Put(EmptyDict, "r1", NewContext("r1", 0))
    /\ kw_history = Put(EmptyDict, "r1", EmptyDict)

NextActive ==
    \/ \E r \in ContextRooms, d \in Spans : GetStatistics(r, d)
    \/ \E r \in ContextRooms, d \in Spans : TouchContext(r, d)

SpecActive == InitActive /\ [][NextActive]_vars

\* The summaries of the log that a few add_message calls built.
NextSummary ==
    \/ \E r \in ContextRooms, u \in Senders, x \in Texts : AddMessage(r, u, x)
    \/ \E r \in ContextRooms, n \in SummarySizes : GetContextSummary(r, n)

SpecSummary == InitActive /\ [][NextSummary]_vars

----------------------------------------------------------------------------
(* The chat layer of src/main.py: the receive loop of websocket_endpoint   *)
(* and bot_reply_task.  Both are coroutines; an action is the code between *)
(* two awaits.  The rooms are those the registry was asked to create.      *)

MaxFrames == 1

ChatRooms == {"r1"}
ChatTexts == {"hello", " "}

\* The content of the completion the API returns.
Completions == {"sure", ""}

\* generate_response: fallback_replies
fallback_replies ==
    {"That sounds interesting! Could you tell me more?",
     "I see. Can you elaborate on that?",
     "That's a good point. What else would you like to discuss?",
     "Thanks for sharing! Do you have any other thoughts?"}

\* str.strip()
Strip(s) ==
    LET keep == {i \in 1..Len(s) : CharAt(s, i) \notin Whitespace}
    IN  IF keep = {} THEN ""
        ELSE SubSeq(s, CHOOSE i \in keep : \A j \in keep : i <= j,
                       CHOOSE i \in keep : \A j \in keep : i >= j)

\* save_message(room_id, sender, text) of db/database.py; no handler of
\* src/main.py calls it.
save_message(collection, room_id, sender, text, t) ==
    Append(collection,
           [room_id |-> room_id, sender |-> sender, text |-> text,
            timestamp |-> t])

\* get_or_create_context(room_id)
get_or_create_context(contexts, room_id, t) ==
    IF room_id \notin DOMAIN contexts
    THEN Put(contexts, room_id, NewContext(room_id, t))
    ELSE [contexts EXCEPT ![room_id].last_activity = t]

\* Mutant of get_context: the context is never found.
get_context_missing(contexts, room_id) == None

\* get_context(room_id): the room's context or None; a reference to a
\* context is its key in conversation_contexts.
get_context(contexts, room_id) ==
    IF room_id \in DOMAIN contexts THEN room_id ELSE None

\* remove_context(room_id)
remove_context(contexts, room_id) ==
    IF room_id \in DOMAIN contexts THEN Del(contexts, room_id) ELSE contexts

\* The keyword history of the room after `sender` appended `keywords`.
AppendedIn(hist, room_id, sender, keywords) ==
    LET h == IF room_id \in DOMAIN hist THEN hist
             ELSE Put(hist, room_id, EmptyDict)
    IN  [h EXCEPT ![room_id] = Appended(@, sender, keywords)]

\* The lists _extract_keywords may return to add_message; it is called for
\* real users only.
KeywordLists(sender, text) ==
    IF is_real_user(sender) THEN Orders(extract_keywords(text)) ELSE {<<>>}

\* Mutant of NewTask: the task is created past its delay.
NewTask_awake(room_id, user_id, user_message, bot) ==
    [room_id |-> room_id, user_id |-> user_id, user_message |-> user_message,
     bot |-> bot, pc |-> "generate", bot_reply |-> None, request |-> <<>>,
     fan |-> NoFan, enabled_at_wake |-> TRUE, room_at_wake |-> TRUE,
     sender_left_at_wake |-> FALSE, saved |-> FALSE]

\* asyncio.create_task(bot_reply_task(room_id, uid, data, bot))
NewTask(room_id, user_id, user_message, bot) ==
    [room_id |-> room_id, user_id |-> user_id, user_message |-> user_message,
     bot |-> bot, pc |-> "created", bot_reply |-> None, request |-> <<>>,
     fan |-> NoFan,
     enabled_at_wake |-> TRUE,    \* bot_enabled when the sleep returned
     room_at_wake |-> TRUE,       \* the room was active when the sleep returned
     sender_left_at_wake |-> FALSE,  \* no handler of user_id was open then
     saved |-> FALSE]             \* the reply was appended to the context

\* websocket_endpoint after the broadcast loop:
\* if admin_config.bot_enabled and bot: asyncio.create_task(...)
Trigger(ts, cfg, room_id, h, data) ==
    IF cfg.bot_enabled /\ h.bot # NoBot
    THEN Append(ts, NewTask(room_id, h.uid, data, h.bot))
    ELSE ts

\* The handler of `ws` after a step of its broadcast loop left the fan-out
\* and the inboxes as in st.
HandlerAfter(ws, data, st) ==
    /\ inbox' = st.inbox
    /\ IF st.fan.active
       THEN /\ handlers' = [handlers EXCEPT
                   ![ws].pc = "send", ![ws].data = data, ![ws].fan = st.fan,
                   ![ws].enabled_at_arrival =
                       IF handlers[ws].pc = "receive"
                       THEN admin_config.bot_enabled ELSE @]
            /\ UNCHANGED tasks
       ELSE /\ handlers' = [handlers EXCEPT
                   ![ws].pc = "receive", ![ws].data = data, ![ws].fan = st.fan,
                   ![ws].enabled_at_arrival =
                       IF handlers[ws].pc = "receive"
                       THEN admin_config.bot_enabled ELSE @]
            /\ tasks' = Trigger(tasks, admin_config, conns[ws], handlers[ws], data)

\* websocket_endpoint: receive_text returns `data`; the message goes to the
\* context and the broadcast loop runs up to its first send.
WsReceive(ws, data) ==
    /\ ws \in DOMAIN conns
    /\ ws \notin closed
    /\ handlers[ws].pc = "receive"
    /\ frames' = frames + 1
    /\ LET room_id == conns[ws]
           uid == handlers[ws].uid
           formatted_message == uid \o ": " \o data
       IN  /\ \E keywords \in KeywordLists(uid, data) :
                 /\ conversation_contexts' =
                        [get_or_create_context(conversation_contexts, room_id, now)
                            EXCEPT ![room_id] =
                                add_message(@, uid, data, now, now, keywords)]
                 /\ kw_history' = AppendedIn(kw_history, room_id, uid, keywords)
           /\ HandlerAfter(ws, data,
                  FanStep(BeginFan(active_rooms, room_id, formatted_message),
                          active_rooms, inbox, closed))
           /\ call' = [Call("ws_receive", uid, None, room_id, "ok", ws)
                          EXCEPT !.text = data]
    /\ UNCHANGED <<matchVars, now, ops, botVars, closed, messages_collection>>

\* websocket_endpoint: the broadcast loop resumes after a send.
WsSend(ws) ==
    /\ ws \in DOMAIN conns
    /\ handlers[ws].pc = "send"
    /\ HandlerAfter(ws, handlers[ws].data,
                    FanStep(handlers[ws].fan, active_rooms, inbox, closed))
    /\ call' = [Call("ws_send", handlers[ws].uid, None, conns[ws], "ok", ws)
                   EXCEPT !.text = handlers[ws].data]
    /\ UNCHANGED <<matchVars, now, ctxVars, botVars, closed, frames,
                   messages_collection>>

\* The client of `ws` goes away; its handler has not noticed yet.
WsBreak(ws) ==
    /\ ws \in DOMAIN conns
    /\ ws \notin closed
    /\ closed' = closed \cup {ws}
    /\ call' = Call("ws_break", handlers[ws].uid, None, conns[ws], "ok", ws)
    /\ UNCHANGED <<matchVars, now, ctxVars, handlers, tasks, botVars, inbox,
                   frames, messages_collection>>

\* bot_reply_task, up to the sleep: the check of bot_enabled.
TaskStart(k) ==
    /\ k \in DOMAIN tasks
    /\ tasks[k].pc = "created"
    /\ tasks' = [tasks EXCEPT ![k].pc = IF admin_config.bot_enabled
                                       THEN "sleep" ELSE "skipped"]
    /\ call' = Call("task_start", tasks[k].user_id, None, tasks[k].room_id,
                    IF admin_config.bot_enabled THEN "ok" ELSE "skipped", None)
    /\ UNCHANGED <<matchVars, now, ctxVars, handlers, botVars, inbox, closed,
                   frames, messages_collection>>

\* bot_reply_task: the sleep returns; `if not bot` passes (the task was
\* created with a bot) and generate_response runs up to the API call.
TaskWake(k) ==
    /\ k \in DOMAIN tasks
    /\ tasks[k].pc = "sleep"
    /\ LET t == tasks[k]
           history == Append(bots[t.bot].conversation_history,
                             [role |-> "user",
                              content |-> t.user_id \o ": " \o t.user_message])
       IN  /\ bots' = [bots EXCEPT ![t.bot].conversation_history = history]
           /\ tasks' = [tasks EXCEPT
                  ![k].pc = "generate",
                  ![k].enabled_at_wake = admin_config.bot_enabled,
                  ![k].room_at_wake = (t.room_id \in DOMAIN active_rooms),
                  ![k].sender_left_at_wake =
                      (\A w \in DOMAIN handlers : handlers[w].uid # t.user_id),
                  ![k].request =
                      <<[role |-> "system",
                         content |-> bots[t.bot].system_prompt]>>
                      \o SliceFrom(history, -10)]
           /\ call' = Call("task_wake", t.user_id, None, t.room_id, "ok", None)
    /\ UNCHANGED <<matchVars, now, ctxVars, handlers, bot_instances, inbox,
                   closed, frames, messages_collection>>

\* bot_reply_task after a step of its broadcast loop: when the loop has
\* ended the reply goes to the room's context, if there is one.
TaskAfter(k, bot_reply, st) ==
    /\ inbox' = st.inbox
    /\ IF st.fan.active
       THEN /\ tasks' = [tasks EXCEPT ![k].pc = "send", ![k].bot_reply = bot_reply,
                                      ![k].fan = st.fan]
            /\ UNCHANGED <<conversation_contexts, kw_history>>
       ELSE LET room_id == tasks[k].room_id
                context == get_context(conversation_contexts, room_id)
            IN  /\ tasks' = [tasks EXCEPT ![k].pc = "done",
                                          ![k].bot_reply = bot_reply,
                                          ![k].fan = st.fan,
                                          ![k].saved = (context # None)]
                /\ IF context # None
                   THEN \E keywords \in KeywordLists(admin_config.bot_name,
                                                    bot_reply) :
                           /\ conversation_contexts' =
                                  [conversation_contexts EXCEPT ![context] =
                                      add_message(@, admin_config.bot_name,
                                                  bot_reply, now, now, keywords)]
                           /\ kw_history' =
                                  AppendedIn(kw_history, room_id,
                                             admin_config.bot_name, keywords)
                   ELSE UNCHANGED <<conversation_contexts, kw_history>>

\* Mutant of generate_response: a failure of the API call is raised.
generate_response_raising(outcome, content) ==
    IF outcome = "reply"
    THEN [exc |-> "", ret |-> Strip(content)]
    ELSE [exc |-> "Exception", ret |-> None]

\* ChatBot.generate_response, from the end of the API call.  The call
\* returned `content` (outcome "reply"), raised (outcome "error") or returned
\* a message without content (outcome "missing": None.strip() raises
\* AttributeError); in the last two cases `content` is the fallback that
\* random.choice picks in the except branch.
generate_response(outcome, content) ==
    IF outcome = "reply"
    THEN [exc |-> "", ret |-> Strip(content)]
    ELSE [exc |-> "", ret |-> content]

\* bot_reply_task: generate_response returns.  An empty reply ends the
\* task, any other is broadcast; an exception would be caught by the
\* except branch of the task, which prints it.
TaskGenerated(k, outcome, content) ==
    /\ k \in DOMAIN tasks
    /\ tasks[k].pc = "generate"
    /\ LET t == tasks[k]
           g == generate_response(outcome, content)
           bot_reply == g.ret
       IN  /\ bots' = IF outcome = "reply"
                      THEN [bots EXCEPT ![t.bot].conversation_history =
                                Append(@, [role |-> "assistant",
                                           content |-> bot_reply])]
                      ELSE bots
           /\ IF g.exc # ""
              THEN /\ tasks' = [tasks EXCEPT ![k].pc = "done"]
                   /\ UNCHANGED <<inbox, conversation_contexts, kw_history>>
              ELSE IF bot_reply = ""
              THEN /\ tasks' = [tasks EXCEPT ![k].pc = "done",
                                             ![k].bot_reply = bot_reply]
                   /\ UNCHANGED <<inbox, conversation_contexts, kw_history>>
              ELSE TaskAfter(k, bot_reply,
                       FanStep(BeginFan(active_rooms, t.room_id,
                                        admin_config.bot_name \o ": " \o bot_reply),
                               active_rooms, inbox, closed))
           /\ call' = [Call("task_generated", t.user_id, None, t.room_id,
                            outcome, None) EXCEPT !.text = bot_reply]
    /\ UNCHANGED <<matchVars, now, ops, handlers, bot_instances, closed, frames,
                   messages_collection>>

\* bot_reply_task: the broadcast loop resumes after a send.
TaskSend(k) ==
    /\ k \in DOMAIN tasks
    /\ tasks[k].pc = "send"
    /\ TaskAfter(k, tasks[k].bot_reply,
                 FanStep(tasks[k].fan, active_rooms, inbox, closed))
    /\ call' = [Call("task_send", tasks[k].user_id, None, tasks[k].room_id,
                     "ok", None) EXCEPT !.text = tasks[k].bot_reply]
    /\ UNCHANGED <<matchVars, now, ops, handlers, botVars, closed, frames,
                   messages_collection>>

\* POST /api/admin/rooms/{room_id}/end
EndRoomAdmin(room_id) ==
    /\ IF room_id \in DOMAIN active_rooms
       THEN LET r == end_room(active_rooms, user_to_room, room_id)
            IN  /\ active_rooms' = r.active_rooms
                /\ user_to_room' = r.user_to_room
                /\ conversation_contexts' =
                       remove_context(conversation_contexts, room_id)
                /\ kw_history' = remove_context(kw_history, room_id)
                /\ bot_instances' = remove_bot(bot_instances, room_id)
                /\ handlers' = DetachHandlers(handlers, active_rooms, room_id)
                /\ tasks' = DetachTasks(tasks, active_rooms, room_id)
                /\ call' = Call("end_room_admin", None, None, room_id,
                                "success", None)
       ELSE /\ UNCHANGED <<active_rooms, user_to_room, conversation_contexts,
                           kw_history, bot_instances, handlers, tasks>>
            /\ call' = Call("end_room_admin", None, None, room_id, "error", None)
    /\ UNCHANGED <<group_size, admin_config, queues, user_to_queue, conns, now,
                   ops, bots, inbox, closed, frames, messages_collection>>

\* POST /api/admin/bots/reset: clear_all_bots() empties bot_instances; the
\* ChatBot objects that handlers and tasks hold stay as they are.
ResetAllBots ==
    /\ bot_instances' = EmptyDict
    /\ call' = Call("reset_all_bots", None, None, None, "success", None)
    /\ UNCHANGED <<matchVars, now, ctxVars, handlers, tasks, bots, inbox,
                   closed, frames, messages_collection>>

\* The connection layer is exercised with automated replies switched off
\* (POST /api/admin/config with bot_enabled = false on the fresh server):
\* no handler holds a bot and no reply task is created.
InitChat ==
    /\ admin_config = [AdminConfig EXCEPT !.bot_enabled = FALSE]
    /\ group_size = admin_config.group_size
    /\ queues = EmptyDict
    /\ active_rooms = EmptyDict
    /\ user_to_room = EmptyDict
    /\ user_to_queue = EmptyDict
    /\ conns = EmptyDict
    /\ now = 0
    /\ call = Call("init", None, None, None, "ok", None)
    /\ conversation_contexts = EmptyDict
    /\ kw_history = EmptyDict
    /\ ops = 0
    /\ InitChatVars

\* The participant each websocket of the model connects as.
UidOf(ws) == IF ws = "ws1" THEN "a" ELSE "b"

NextChat ==
    \/ \E r \in ChatRooms : CreateRoom(r, NoneArg)
    \/ \E r \in ChatRooms : EndRoomAdmin(r)
    \/ \E w \in WebSockets, r \in ChatRooms : WsConnect(w, r, UidOf(w))
    \/ \E w \in WebSockets : WsBreak(w)
    \/ \E w \in WebSockets : WsDisconnect(w)
    \/ \E w \in WebSockets, x \in ChatTexts :
          frames < MaxFrames /\ WsReceive(w, x)
    \/ \E w \in WebSockets : WsSend(w)

SpecChat == InitChat /\ [][NextChat]_vars

\* The reply tasks are exercised from the server on which create_room("r1")
\* was called and "a" and "b" then opened a connection to r1 with automated
\* replies enabled: both are registered and share the room's bot.
InitReply ==
    /\ admin_config = AdminConfig
    /\ group_size = admin_config.group_size
    /\ queues = EmptyDict
    /\ active_rooms =
           [create_room(EmptyDict, StrArg("r1"), NoneArg, AdminConfig, 0)
                .active_rooms EXCEPT !["r1"].ws_connections = <<"ws1", "ws2">>]
    /\ user_to_room = EmptyDict
    /\ user_to_queue = EmptyDict
    /\ conns = [w \in {"ws1", "ws2"} |-> "r1"]
    /\ now = 0
    /\ call = Call("ws_connect", "b", None, "r1", "ok", "ws2")
    /\ conversation_contexts = EmptyDict
    /\ kw_history = EmptyDict
    /\ ops = 0
    /\ LET b == get_or_create_bot(EmptyDict, <<>>, "r1", AdminConfig.bot_prompt)
       IN  /\ bot_instances = b.bot_instances
           /\ bots = b.bots
           /\ handlers = [w \in {"ws1", "ws2"} |->
                             NewHandler(UidOf(w), b.ret)]
    /\ tasks = <<>>
    /\ inbox = [w \in {"ws1", "ws2"} |-> <<>>]
    /\ closed = {}
    /\ frames = 0
    /\ messages_collection = <<>>

NextReply ==
    \/ \E w \in WebSockets, x \in ChatTexts :
          frames < MaxFrames /\ WsReceive(w, x)
    \/ \E w \in WebSockets : WsSend(w)
    \/ \E w \in WebSockets : WsDisconnect(w)
    \/ \E e \in BOOLEAN : SetAdminConfig(admin_config.group_size, e)
    \/ \E r \in ChatRooms : EndRoom(r)
    \/ \E r \in ChatRooms : EndRoomAdmin(r)
    \/ \E k \in 1..MaxFrames : TaskStart(k)
    \/ \E k \in 1..MaxFrames : TaskWake(k)
    \/ \E k \in 1..MaxFrames :
          \/ \E c \in Completions : TaskGenerated(k, "reply", c)
          \/ \E c \in fallback_replies : TaskGenerated(k, "error", c)
    \/ \E k \in 1..MaxFrames : TaskSend(k)

SpecReply == InitReply /\ [][NextReply]_vars

\* The reply tasks of a room that stays active while replies stay enabled,
\* "a" being the participant who writes: the handlers and the tasks.
NextTask ==
    \/ frames < MaxFrames /\ WsReceive("ws1", "hello")
    \/ \E w \in WebSockets : WsSend(w)
    \/ \E w \in WebSockets : WsDisconnect(w)
    \/ \E k \in 1..MaxFrames : TaskStart(k)
    \/ \E k \in 1..MaxFrames : TaskWake(k)
    \/ \E k \in 1..MaxFrames :
          \/ \E c \in Completions : TaskGenerated(k, "reply", c)
          \/ \E c \in fallback_replies : TaskGenerated(k, "error", c)
    \/ \E k \in 1..MaxFrames : TaskSend(k)

SpecTask == InitReply /\ [][NextTask]_vars

\* The fallback random.choice picks when the API call fails.
Fallback == "I see. Can you elaborate on that?"

\* The reply tasks with the administrator switching the replies off at any
\* time, "a" being the participant who writes and "b" the one who may leave.
NextSchedule ==
    \/ frames < MaxFrames /\ WsReceive("ws1", "hello")
    \/ \E w \in WebSockets : WsSend(w)
    \/ WsDisconnect("ws2")
    \/ SetAdminConfig(admin_config.group_size, FALSE)
    \/ \E k \in 1..MaxFrames : TaskStart(k)
    \/ \E k \in 1..MaxFrames : TaskWake(k)
    \/ \E k \in 1..MaxFrames :
          \/ \E c \in Completions : TaskGenerated(k, "reply", c)
          \/ TaskGenerated(k, "error", Fallback)
    \/ \E k \in 1..MaxFrames : TaskSend(k)

\* generate_response returns, with a reply or with a fallback.
TaskReturns(k) ==
    \/ \E c \in Completions : TaskGenerated(k, "reply", c)
    \/ TaskGenerated(k, "error", Fallback)

\* The event loop runs every task that is ready: a task that was created is
\* started, and its sleep, its call of the generator and each of its sends
\* return.
SpecSchedule ==
    /\ InitReply
    /\ [][NextSchedule]_vars
    /\ \A k \in 1..MaxFrames :
           /\ WF_vars(TaskStart(k))
           /\ WF_vars(TaskWake(k))
           /\ WF_vars(TaskReturns(k))
           /\ WF_vars(TaskSend(k))

\* The names the administrator gives the bot.
BotNames == {"Bot", "Eva"}

\* The reply tasks are exercised with a bot that is renamed, from the server
\* on which create_room("r1") was called and "a" and "Botond" then opened a
\* connection to r1 with automated replies enabled.
InitName ==
    /\ admin_config = AdminConfig
    /\ group_size = admin_config.group_size
    /\ queues = EmptyDict
    /\ active_rooms =
           [create_room(EmptyDict, StrArg("r1"), NoneArg, AdminConfig, 0)
                .active_rooms EXCEPT !["r1"].ws_connections = <<"ws1", "ws2">>]
    /\ user_to_room = EmptyDict
    /\ user_to_queue = EmptyDict
    /\ conns = [w \in {"ws1", "ws2"} |-> "r1"]
    /\ now = 0
    /\ call = Call("ws_connect", "Botond", None, "r1", "ok", "ws2")
    /\ conversation_contexts = EmptyDict
    /\ kw_history = EmptyDict
    /\ ops = 0
    /\ LET b == get_or_create_bot(EmptyDict, <<>>, "r1", AdminConfig.bot_prompt)
       IN  /\ bot_instances = b.bot_instances
           /\ bots = b.bots
           /\ handlers = [w \in {"ws1", "ws2"} |->
                             NewHandler(IF w = "ws1" THEN "a" ELSE "Botond",
                                        b.ret)]
    /\ tasks = <<>>
    /\ inbox = [w \in {"ws1", "ws2"} |-> <<>>]
    /\ closed = {}
    /\ frames = 0
    /\ messages_collection = <<>>

NextName ==
    \/ \E w \in WebSockets : frames < MaxFrames /\ WsReceive(w, "hello")
    \/ \E w \in WebSockets : WsSend(w)
    \/ \E n \in BotNames : SetBotName(n)
    \/ \E k \in 1..MaxFrames : TaskStart(k)
    \/ \E k \in 1..MaxFrames : TaskWake(k)
    \/ \E k \in 1..MaxFrames :
          \/ TaskGenerated(k, "reply", "sure")
          \/ TaskGenerated(k, "error", Fallback)
    \/ \E k \in 1..MaxFrames : TaskSend(k)

SpecName == InitName /\ [][NextName]_vars

\* The reply tasks with every outcome of the API call, in a room that
\* nobody leaves.
NextGenerate ==
    \/ \E w \in WebSockets, x \in ChatTexts :
          frames < MaxFrames /\ WsReceive(w, x)
    \/ \E w \in WebSockets : WsSend(w)
    \/ \E k \in 1..MaxFrames : TaskStart(k)
    \/ \E k \in 1..MaxFrames : TaskWake(k)
    \/ \E k \in 1..MaxFrames :
          \/ \E c \in Completions : TaskGenerated(k, "reply", c)
          \/ \E c \in fallback_replies : TaskGenerated(k, "error", c)
          \/ \E c \in fallback_replies : TaskGenerated(k, "missing", c)
    \/ \E k \in 1..MaxFrames : TaskSend(k)

SpecGenerate == InitReply /\ [][NextGenerate]_vars

\* The reply tasks with an administrator who resets the bots or ends the
\* room while its connections stay open.
NextBots ==
    \/ \E w \in WebSockets, x \in ChatTexts :
          frames < MaxFrames /\ WsReceive(w, x)
    \/ \E w \in WebSockets : WsSend(w)
    \/ ResetAllBots
    \/ \E r \in ChatRooms : EndRoomAdmin(r)
    \/ \E k \in 1..MaxFrames : TaskStart(k)
    \/ \E k \in 1..MaxFrames : TaskWake(k)
    \/ \E k \in 1..MaxFrames :
          \/ \E c \in Completions : TaskGenerated(k, "reply", c)
          \/ TaskGenerated(k, "error", Fallback)
    \/ \E k \in 1..MaxFrames : TaskSend(k)

SpecBots == InitReply /\ [][NextBots]_vars

MaxPromptFrames == 2

\* The prompts an administrator sets.
Prompts == {" ", "Be kind."}

\* The lengths of the bot's conversation history at the start.
InitialHistories == {8, 9}

\* The history after n \div 2 exchanges that got a reply and, for an odd n,
\* one whose API call failed.
PopulatedBotHistory(n) ==
    [i \in 1..n |-> IF i % 2 = 1
                    THEN [role |-> "user", content |-> "a: hello"]
                    ELSE [role |-> "assistant", content |-> "sure"]]

\* update_all_bots_prompt(new_prompt)
UpdateAllBotsPrompt(new_prompt) ==
    /\ bots' = update_all_bots_prompt(bot_instances, bots, new_prompt)
    /\ call' = [Call("update_all_bots_prompt", None, None, None, "ok", None)
                   EXCEPT !.text = new_prompt]
    /\ UNCHANGED <<matchVars, now, ctxVars, handlers, tasks, bot_instances,
                   inbox, closed, frames, messages_collection>>

\* The requests to the API are exercised from the server on which "a" is
\* connected to r1 with replies enabled and has had some exchanges with
\* the bot, the context of the room having been cleaned up since.
InitPrompt ==
    /\ admin_config = AdminConfig
    /\ group_size = admin_config.group_size
    /\ queues = EmptyDict
    /\ active_rooms =
           [create_room(EmptyDict, StrArg("r1"), NoneArg, AdminConfig, 0)
                .active_rooms EXCEPT !["r1"].ws_connections = <<"ws1">>]
    /\ user_to_room = EmptyDict
    /\ user_to_queue = EmptyDict
    /\ conns = [w \in {"ws1"} |-> "r1"]
    /\ now = 0
    /\ call = Call("ws_connect", "a", None, "r1", "ok", "ws1")
    /\ conversation_contexts = EmptyDict
    /\ kw_history = EmptyDict
    /\ ops = 0
    /\ LET b == get_or_create_bot(EmptyDict, <<>>, "r1", AdminConfig.bot_prompt)
       IN  /\ bot_instances = b.bot_instances
           /\ \E n \in InitialHistories :
                  bots = [b.bots EXCEPT ![b.ret].conversation_history =
                                           PopulatedBotHistory(n)]
           /\ handlers = [w \in {"ws1"} |-> NewHandler("a", b.ret)]
    /\ tasks = <<>>
    /\ inbox = [w \in {"ws1"} |-> <<>>]
    /\ closed = {}
    /\ frames = 0
    /\ messages_collection = <<>>

NextPrompt ==
    \/ frames < MaxPromptFrames /\ WsReceive("ws1", "hello")
    \/ WsSend("ws1")
    \/ \E p \in Prompts : UpdateAllBotsPrompt(p)
    \/ \E k \in 1..MaxPromptFrames : TaskStart(k)
    \/ \E k \in 1..MaxPromptFrames : TaskWake(k)
    \/ \E k \in 1..MaxPromptFrames : TaskGenerated(k, "reply", "sure")
    \/ \E k \in 1..MaxPromptFrames : TaskSend(k)

SpecPrompt == InitPrompt /\ [][NextPrompt]_vars

MaxRelayFrames == 2

\* The relay of messages between two handlers is exercised from the server
\* on which replies were switched off, create_room("r1") was called and "a"
\* and "b" then opened a connection to r1: both are registered, no handler
\* holds a bot.
InitRelay ==
    /\ admin_config = [AdminConfig EXCEPT !.bot_enabled = FALSE]
    /\ group_size = admin_config.group_size
    /\ queues = EmptyDict
    /\ active_rooms =
           [create_room(EmptyDict, StrArg("r1"), NoneArg, admin_config, 0)
                .active_rooms EXCEPT !["r1"].ws_connections = <<"ws1", "ws2">>]
    /\ user_to_room = EmptyDict
    /\ user_to_queue = EmptyDict
    /\ conns = [w \in {"ws1", "ws2"} |-> "r1"]
    /\ now = 0
    /\ call = Call("ws_connect", "b", None, "r1", "ok", "ws2")
    /\ conversation_contexts = EmptyDict
    /\ kw_history = EmptyDict
    /\ ops = 0
    /\ handlers = [w \in {"ws1", "ws2"} |-> NewHandler(UidOf(w), NoBot)]
    /\ tasks = <<>>
    /\ bot_instances = EmptyDict
    /\ bots = <<>>
    /\ inbox = [w \in {"ws1", "ws2"} |-> <<>>]
    /\ closed = {}
    /\ frames = 0
    /\ messages_collection = <<>>

NextRelay ==
    \/ \E w \in WebSockets, x \in ChatTexts :
          frames < MaxRelayFrames /\ WsReceive(w, x)
    \/ \E w \in WebSockets : WsSend(w)
    \/ \E w \in WebSockets : WsDisconnect(w)
    \/ \E e \in BOOLEAN : SetAdminConfig(admin_config.group_size, e)

SpecRelay == InitRelay /\ [][NextRelay]_vars

----------------------------------------------------------------------------
(* Claims about the matching queue (checked under SpecQueue). *)

QueueOf(qs, condition) ==
    IF condition \in DOMAIN qs THEN qs[condition] ELSE <<>>

NoDuplicates(s) == \A i, j \in DOMAIN s : s[i] = s[j] => i = j

InSomeQueue(qs, u) == \E c \in DOMAIN qs : Contains(qs[c], u)

\* The queue of the call's condition as the call found it, with the caller
\* appended when the call is a join that got as far as match_group.
QueueAtMatch ==
    IF call'.op \in {"join_queue", "match"}
    THEN Append(QueueOf(queues, call'.condition), call'.uid)
    ELSE QueueOf(queues, call'.condition)

\* C1: every batch match_group takes is exactly the group_size longest-waiting
\* participants of the condition's queue in arrival order (group_size being
\* the value in effect when the batch fills), and the participants left in
\* the queue keep their relative arrival order: the batch followed by the
\* queue that remains is the queue as it stood when the batch filled.
C1_FifoBatches ==
    [][call'.taken =>
          /\ Len(call'.group) = group_size
          /\ call'.group \o QueueOf(queues', call'.condition) = QueueAtMatch]_vars

\* C1 witness: a batch was taken ahead of a later arrival who stays queued.
C1_Witness ==
    /\ call.taken
    /\ call.group # <<>>
    /\ QueueOf(queues, call.condition) # <<>>
    /\ call.group[1] # QueueOf(queues, call.condition)[1]

EmptyManager ==
    /\ \A c \in DOMAIN queues : queues[c] = <<>>
    /\ user_to_queue = EmptyDict
    /\ active_rooms = EmptyDict

JoinCall(c, uid) ==
    c.op = "join_queue" /\ c.uid = uid /\ c.condition = "default"

\* C2: from an empty manager with group_size = 2, join_queue("a") reports no
\* match and creates no room; the following join_queue("b") does not raise,
\* reports the match, leaves a and b in no queue and out of user_to_queue,
\* and exactly one active room exists, with member list [a, b].
C2_ScenarioMatch ==
    [][/\ (EmptyManager /\ group_size = 2 /\ JoinCall(call', "a")) =>
            /\ call'.outcome = "waiting"
            /\ call'.ret = None
            /\ active_rooms' = EmptyDict
       /\ (/\ group_size = 2
           /\ QueueOf(queues, "default") = <<"a">>
           /\ user_to_queue = Put(EmptyDict, "a", "default")
           /\ active_rooms = EmptyDict
           /\ JoinCall(call', "b")) =>
            /\ call'.outcome = "matched"
            /\ call'.ret # None
            /\ ~InSomeQueue(queues', "a") /\ ~InSomeQueue(queues', "b")
            /\ DOMAIN user_to_queue' \cap {"a", "b"} = {}
            /\ Cardinality(DOMAIN active_rooms') = 1
            /\ \A r \in DOMAIN active_rooms' :
                   active_rooms'[r].members = <<"a", "b">>]_vars

\* C4: each participant occurs at most once across all queues, and is in the
\* queue of condition c exactly when user_to_queue maps the participant to c.
C4_QueueIndexConsistent ==
    \A u \in Users :
        /\ Cardinality({<<c, i>> \in Conditions \X (1..(MaxQueueLen + 1)) :
                            /\ c \in DOMAIN queues
                            /\ i \in DOMAIN queues[c]
                            /\ queues[c][i] = u}) <= 1
        /\ \A c \in Conditions :
               (c \in DOMAIN queues /\ Contains(queues[c], u))
                   <=> (u \in DOMAIN user_to_queue /\ user_to_queue[u] = c)

\* C5: no participant is matched twice: a batch holds no participant id more
\* than once, and a participant taken into a batch is waiting in no queue
\* afterwards, so that only a new join can put them into another batch.
C5_NoDoubleMatch ==
    [][call'.taken =>
          /\ NoDuplicates(call'.group)
          /\ \A u \in Range(call'.group) : ~InSomeQueue(queues', u)]_vars

----------------------------------------------------------------------------
(* Claims about the room registry (checked under SpecRoom). *)

\* C6: create_room with the id of a room that already exists leaves the
\* room's members, connections, created_at and bot_enabled unchanged.
C6_CreateRoomIdempotent ==
    [][(call'.op = "create_room" /\ call'.room_id \in DOMAIN active_rooms) =>
          /\ call'.room_id \in DOMAIN active_rooms'
          /\ active_rooms'[call'.room_id] = active_rooms[call'.room_id]]_vars

\* C7: end_room on a room id that is not active raises nothing and leaves
\* the rooms, the queues and both reverse indexes unchanged; end_room on an
\* active room removes that room and the user_to_room entry of each of its
\* members, and no other room.
C7_EndRoom ==
    [][call'.op = "end_room" =>
          /\ call'.outcome \in {"ended", "absent"}
          /\ queues' = queues /\ user_to_queue' = user_to_queue
          /\ call'.room_id \notin DOMAIN active_rooms =>
                 active_rooms' = active_rooms /\ user_to_room' = user_to_room
          /\ call'.room_id \in DOMAIN active_rooms =>
                 /\ DOMAIN active_rooms' = DOMAIN active_rooms \ {call'.room_id}
                 /\ \A r \in DOMAIN active_rooms' :
                        active_rooms'[r] = active_rooms[r]
                 /\ \A u \in Range(active_rooms[call'.room_id].members) :
                        u \notin DOMAIN user_to_room']_vars

\* C7 witness: end_room was called on a room that is not active while
\* another room, with a live connection, is active and a participant waits.
C7_Witness ==
    /\ call.op = "end_room"
    /\ call.outcome = "absent"
    /\ \E r \in DOMAIN active_rooms : active_rooms[r].ws_connections # <<>>
    /\ user_to_queue # EmptyDict

----------------------------------------------------------------------------
(* Claims about the conversation contexts (checked under SpecContext). *)

\* A message without its turn number.
Content(m) == [sender |-> m.sender, text |-> m.text, timestamp |-> m.timestamp]

Contents(messages) == [i \in DOMAIN messages |-> Content(messages[i])]

LastN(l, n) ==
    LET k == IF Len(l) < n THEN Len(l) ELSE n
    IN  [i \in 1..k |-> l[Len(l) - k + i]]

\* C8: a context never stores more than 1000 messages; add_message makes the
\* new message the last one, and at capacity it evicts exactly the single
\* oldest message (below capacity it evicts none).
C8_LogCapped ==
    /\ [](\A r \in DOMAIN conversation_contexts :
             Len(conversation_contexts[r].messages) <= MAX_MESSAGES_PER_ROOM)
    /\ [][call'.op = "add_message" =>
             LET old == conversation_contexts[call'.room_id].messages
                 new == conversation_contexts'[call'.room_id].messages
             IN  /\ Len(new) <= MAX_MESSAGES_PER_ROOM
                 /\ new # <<>>
                 /\ new[Len(new)].sender = call'.uid
                 /\ new[Len(new)].text = call'.text
                 /\ SubSeq(Contents(new), 1, Len(new) - 1) =
                        IF Len(old) >= MAX_MESSAGES_PER_ROOM
                        THEN Tail(Contents(old)) ELSE Contents(old)]_vars

\* C8 witness: a full log whose last two messages were added at capacity:
\* the earlier of the two has moved down a slot when the later one evicted
\* the oldest message.
C8_Witness ==
    /\ call.op = "add_message"
    /\ \E r \in DOMAIN conversation_contexts :
          LET m == conversation_contexts[r].messages
          IN  /\ Len(m) = MAX_MESSAGES_PER_ROOM
              /\ m[Len(m) - 1].sender = "Bot"

\* C9: after any sequence of add_message and clear_old_messages calls the
\* i-th stored message has turn i.
C9_DenseTurns ==
    \A r \in DOMAIN conversation_contexts :
        \A i \in DOMAIN conversation_contexts[r].messages :
            conversation_contexts[r].messages[i].turn = i

\* C10: every profile's keyword list holds at most 50 entries and equals the
\* last 50 of the keywords appended to it so far, in append order.
C10_KeywordsCapped ==
    \A r \in DOMAIN conversation_contexts :
        \A u \in DOMAIN conversation_contexts[r].user_profiles :
            LET keywords == conversation_contexts[r].user_profiles[u].keywords
            IN  /\ Len(keywords) <= MAX_KEYWORDS_PER_USER
                /\ u \in DOMAIN kw_history[r]
                /\ keywords = LastN(kw_history[r][u], MAX_KEYWORDS_PER_USER)

\* C10 witness: a profile at the cap that holds a keyword of a later message
\* in its last slot, older keywords having been dropped.
C10_Witness ==
    \E r \in DOMAIN conversation_contexts :
        \E u \in DOMAIN conversation_contexts[r].user_profiles :
            LET keywords == conversation_contexts[r].user_profiles[u].keywords
            IN  /\ Len(keywords) = MAX_KEYWORDS_PER_USER
                /\ Len(kw_history[r][u]) > MAX_KEYWORDS_PER_USER
                /\ keywords[MAX_KEYWORDS_PER_USER] # "hello"
                /\ keywords[1] = "hello"

\* C15: a /match poll by a member of the batch that the call before it took
\* reports "matched" with the room of the batch and leaves the member in no
\* queue.
C15_MatchedStaysMatched ==
    [][(call.taken /\ call'.op = "match" /\ Contains(call.group, call'.uid)) =>
          /\ call'.outcome = "matched"
          /\ call'.room_id # None
          /\ call'.room_id \in DOMAIN active_rooms'
          /\ ~InSomeQueue(queues', call'.uid)]_vars

Min(a, b) == IF a < b THEN a ELSE b

\* C13: a snapshot exported by to_dict carries, in total_turns and in
\* summary.total_messages, the number of messages stored in the context
\* (not the number exported), and in active_participants and
\* summary.total_participants the number of profiles; its message list is
\* the most recent min(100, N) stored messages in log order.
C13_ExportCounts ==
    call.op = "to_dict" =>
        LET ctx == conversation_contexts[call.room_id]
            N == Len(ctx.messages)
            d == call.ret
        IN  /\ d.total_turns = N
            /\ d.summary.total_messages = N
            /\ d.active_participants = Cardinality(DOMAIN ctx.user_profiles)
            /\ d.summary.total_participants = d.active_participants
            /\ Len(d.messages) = Min(100, N)
            /\ \A i \in 1..Len(d.messages) :
                   d.messages[i] = ctx.messages[N - Len(d.messages) + i]

\* C13 witness: a context holding more than 100 messages was exported.
C13_Witness ==
    /\ call.op = "to_dict"
    /\ Len(conversation_contexts[call.room_id].messages) > 100
    /\ Len(call.ret.messages) = 100

\* The keywords the last add_message appended to its sender's profile.
NewKeywords ==
    LET r == call'.room_id
        u == call'.uid
        before == IF u \in DOMAIN kw_history[r] THEN kw_history[r][u] ELSE <<>>
    IN  SubSeq(kw_history'[r][u], Len(before) + 1, Len(kw_history'[r][u]))

\* The keywords of the messages the model sends, by the rule of C14.
ExpectedKeywords(text) ==
    CASE text = "hello" -> {"hello"}
      [] text = "hi there, how are you?" -> {"there,", "you?"}
      [] text = "ok" -> {}
      [] text = "Tea tea CUP" -> {"tea", "cup"}

IsUserMessage(c) == c.op = "add_message" /\ is_real_user(c.uid)

\* C14 (amended): the keywords extracted from a message are its lower-cased
\* whitespace-separated tokens longer than 2 characters that are no
\* stopword, each once; for "hi there, how are you?" these are "there," and
\* "you?" (punctuation stays on the token; "hi", "how" and "are" are dropped).
C14_Keywords ==
    [][IsUserMessage(call') =>
          /\ Range(NewKeywords) = ExpectedKeywords(call'.text)
          /\ NoDuplicates(NewKeywords)
          /\ \A i \in DOMAIN NewKeywords :
                 /\ Len(NewKeywords[i]) > 2
                 /\ NewKeywords[i] \notin stopwords
                 /\ NewKeywords[i] = Lower(NewKeywords[i])]_vars

\* C14 witness: the keywords of "hi there, how are you?" were appended to the
\* sender's profile.
C14_Witness ==
    /\ call.op = "add_message"
    /\ call.text = "hi there, how are you?"
    /\ is_real_user(call.uid)
    /\ LET keywords ==
               conversation_contexts[call.room_id].user_profiles[call.uid].keywords
       IN  Contains(keywords, "there,") /\ Contains(keywords, "you?")

\* C14 as claimed: for "hi there, how are you?" the result has none of "hi",
\* "are", "you" and contains a "there" token and the token "how".
C14_AsClaimed ==
    [][IsUserMessage(call') /\ call'.text = "hi there, how are you?" =>
          /\ Range(NewKeywords) \cap {"hi", "are", "you"} = {}
          /\ \E i \in DOMAIN NewKeywords : StartsWith(NewKeywords[i], "there")
          /\ Contains(NewKeywords, "how")]_vars

----------------------------------------------------------------------------
(* Claims about the chat layer (checked under SpecChat and SpecReply). *)

\* The reply tasks that are past their sleep.
Woken == {k \in DOMAIN tasks : tasks[k].pc \in {"generate", "send", "done"}}

\* C11: a reply task that finds bot_enabled false when its delay has elapsed
\* starts no broadcast and appends no reply to the room's context.
C11_DisabledMidDelay ==
    \A k \in Woken :
        ~tasks[k].enabled_at_wake =>
            /\ tasks[k].fan.room_id = None
            /\ tasks[k].fan.got = <<>>
            /\ ~tasks[k].saved

\* Position of x in the list s.
IndexOf(s, x) == CHOOSE i \in DOMAIN s : s[i] = x

\* The fan-outs of the handlers that have ended on the list they started
\* on, the list still being the room's list.
SteadyFans ==
    {handlers[w].fan : w \in {x \in DOMAIN handlers :
        /\ handlers[x].fan.room_id # None
        /\ ~handlers[x].fan.active
        /\ handlers[x].fan.room_id \in DOMAIN active_rooms
        /\ active_rooms[handlers[x].fan.room_id].ws_connections
               = handlers[x].fan.start}}

\* C12: a broadcast delivers the frame to every connection of the room's
\* list whose client is still there, whatever sends failed before it; a
\* step of the broadcast raises nothing into the handler and removes no
\* connection from any room's list.
C12_BestEffortBroadcast ==
    /\ [](\A fan \in SteadyFans :
             \A i \in DOMAIN fan.start :
                 fan.start[i] \notin closed =>
                     Contains(inbox[fan.start[i]], fan.frame))
    /\ [][call'.op \in {"ws_receive", "ws_send"} =>
             /\ call'.outcome = "ok"
             /\ call'.ret \in DOMAIN conns'
             /\ active_rooms' = active_rooms]_vars

\* C12 witness: a broadcast has ended whose list holds a connection that
\* failed and, after it, a connection that received the frame; the failed
\* connection is still in the room's list.
C12_Witness ==
    \E fan \in SteadyFans :
        \E x, y \in Range(fan.start) :
            /\ x \in closed
            /\ y \notin closed
            /\ IndexOf(fan.start, x) < IndexOf(fan.start, y)
            /\ Contains(inbox[y], fan.frame)
            /\ ~Contains(inbox[x], fan.frame)
            /\ Contains(active_rooms[fan.room_id].ws_connections, x)

\* C16: a reply task whose room is no longer active when its delay has
\* elapsed stops there: it builds no request for the text generator, starts
\* no broadcast and appends nothing to a context.
C16_RoomEndedMidDelay ==
    \A k \in Woken :
        ~tasks[k].room_at_wake =>
            /\ tasks[k].request = <<>>
            /\ tasks[k].fan.room_id = None
            /\ ~tasks[k].saved

\* C17: after a connection was opened for (room_id, participant) the room is
\* active, the participant is a member of it exactly once and the connection
\* is registered in the room's connection list.
C17_ConnectRegisters ==
    [][call'.op = "ws_connect" =>
          /\ call'.room_id \in DOMAIN active_rooms'
          /\ Cardinality({i \in DOMAIN active_rooms'[call'.room_id].members :
                 active_rooms'[call'.room_id].members[i] = call'.uid}) = 1
          /\ Contains(active_rooms'[call'.room_id].ws_connections, call'.ret)]_vars

\* C18: closing a connection removes exactly that connection from the list
\* of its room and changes nothing else of the registry: the same rooms are
\* active, with the same members and the same other connections in the same
\* order; if the connection is not in the list, or the room is gone, nothing
\* changes and nothing is raised.
C18_DisconnectFrame ==
    [][call'.op = "ws_disconnect" =>
          /\ call'.outcome = "ok"
          /\ DOMAIN active_rooms' = DOMAIN active_rooms
          /\ user_to_room' = user_to_room
          /\ \A r \in DOMAIN active_rooms :
                /\ active_rooms'[r].members = active_rooms[r].members
                /\ active_rooms'[r].ws_connections =
                       IF r = call'.room_id
                       THEN SelectSeq(active_rooms[r].ws_connections,
                                      LAMBDA c : c # call'.ret)
                       ELSE active_rooms[r].ws_connections]_vars

\* C18 witness: a connection that had received a frame in its room was
\* closed, and the room is still active with another connection in its list.
C18_Witness ==
    /\ call.op = "ws_disconnect"
    /\ inbox[call.ret] # <<>>
    /\ call.room_id \in DOMAIN active_rooms
    /\ active_rooms[call.room_id].ws_connections # <<>>
    /\ ~Contains(active_rooms[call.room_id].ws_connections, call.ret)

\* C19: a blank inbound frame changes no conversation context, reaches no
\* connection and creates no reply task.
C19_BlankIgnored ==
    [][(call'.op = "ws_receive" /\ IsBlank(call'.text)) =>
          /\ conversation_contexts' = conversation_contexts
          /\ inbox' = inbox
          /\ tasks' = tasks]_vars

\* C20: every non-blank message in a room's context is in the persistent
\* store, for the same room and sender.
C20_Persisted ==
    \A r \in DOMAIN conversation_contexts :
        \A i \in DOMAIN conversation_contexts[r].messages :
            LET m == conversation_contexts[r].messages[i]
            IN  ~IsBlank(m.text) =>
                    \E j \in DOMAIN messages_collection :
                        /\ messages_collection[j].room_id = r
                        /\ messages_collection[j].sender = m.sender
                        /\ messages_collection[j].text = m.text

----------------------------------------------------------------------------
(* Claims about concurrent handlers (checked under SpecRelay and SpecChat). *)

\* The frame the handler broadcasts for the message m of a context.
FrameOf(m) == m.sender \o ": " \o m.text

\* The positions of the frame f in the list s.
Positions(s, f) == {p \in DOMAIN s : s[p] = f}

\* C21: every connection receives the user messages of its room in the
\* order in which they were appended to the room's context: of two messages
\* of the log (each with a frame of its own) that a connection has both
\* received, the one appended first was received first.
C21_RelayInLogOrder ==
    \A r \in DOMAIN conversation_contexts :
        LET m == conversation_contexts[r].messages
        IN  \A w \in DOMAIN inbox :
                \A i, j \in DOMAIN m :
                    (/\ i < j
                     /\ FrameOf(m[i]) # FrameOf(m[j])
                     /\ w \in DOMAIN conns
                     /\ conns[w] = r) =>
                        \A p \in Positions(inbox[w], FrameOf(m[i])) :
                            \A q \in Positions(inbox[w], FrameOf(m[j])) : p < q

\* The broadcasts of the handlers that have run to their end on the list
\* object of their room.
EndedFans ==
    {handlers[w].fan : w \in {x \in DOMAIN handlers :
        /\ handlers[x].fan.room_id # None
        /\ ~handlers[x].fan.active
        /\ handlers[x].fan.live
        /\ handlers[x].fan.room_id \in DOMAIN active_rooms}}

\* C22: when a broadcast has ended, every connection that was in the room's
\* list when it started and is still there (connections are never
\* registered twice, so it was there all along), and whose client is still
\* there, was sent the frame exactly once, whatever connections left the
\* list meanwhile.
C22_RemovalDuringBroadcast ==
    \A fan \in EndedFans :
        \A x \in Range(fan.start) \cap
                  Range(active_rooms[fan.room_id].ws_connections) :
            x \notin closed => Cardinality(Positions(fan.got, x)) = 1

\* bot_enabled as it was when the frame that the step handles arrived.
EnabledAtArrival ==
    IF call'.op = "ws_receive" THEN admin_config.bot_enabled
    ELSE handlers[call'.ret].enabled_at_arrival

\* The step is one of a handler working on a frame that is not blank.
HandlesMessage ==
    call'.op \in {"ws_receive", "ws_send"} /\ ~IsBlank(call'.text)

\* C24: the handling of a non-blank inbound message creates exactly one
\* reply task, for that message, if replies were enabled when the message
\* arrived (whatever bot_enabled was when the connection was opened, and
\* whatever tasks exist already), and none if they were disabled.
C24_OneTaskPerMessage ==
    [][HandlesMessage =>
          IF handlers'[call'.ret].pc = "receive" /\ EnabledAtArrival
          THEN /\ Len(tasks') = Len(tasks) + 1
               /\ SubSeq(tasks', 1, Len(tasks)) = tasks
               /\ tasks'[Len(tasks')].room_id = call'.room_id
               /\ tasks'[Len(tasks')].user_id = call'.uid
               /\ tasks'[Len(tasks')].user_message = call'.text
          ELSE tasks' = tasks]_vars

----------------------------------------------------------------------------
(* Claims about the reply tasks (checked under SpecTask). *)

\* The frame the task k broadcasts.
ReplyFrame(k) == admin_config.bot_name \o ": " \o tasks[k].bot_reply

\* The task k has run to its end with a reply, the sender of its message
\* having left before the delay had elapsed, replies being enabled then,
\* and its broadcast having run on the list of the room, which nobody left
\* or joined meanwhile.
RepliedAfterSenderLeft(k) ==
    /\ tasks[k].pc = "done"
    /\ tasks[k].sender_left_at_wake
    /\ tasks[k].enabled_at_wake
    /\ tasks[k].bot_reply # ""
    /\ tasks[k].fan.room_id \in DOMAIN active_rooms
    /\ tasks[k].fan.live
    /\ active_rooms[tasks[k].fan.room_id].ws_connections = tasks[k].fan.start

\* C23: closing a connection changes no reply task; a task whose sender has
\* left during the delay, the bot staying enabled and the room active, still
\* asks the generator for a reply, and the reply it gets is delivered to
\* every connection that is left in the room and appended to the room's
\* context.
C23_NoCancelOnDisconnect ==
    /\ [](\A k \in DOMAIN tasks :
             /\ (tasks[k].pc \in {"generate", "send", "done"}
                     /\ tasks[k].sender_left_at_wake) =>
                    tasks[k].request # <<>>
             /\ RepliedAfterSenderLeft(k) =>
                    /\ \A w \in DOMAIN conns :
                           (conns[w] = tasks[k].room_id /\ w \notin closed) =>
                               Contains(inbox[w], ReplyFrame(k))
                    /\ tasks[k].room_id \in DOMAIN conversation_contexts
                    /\ \E i \in DOMAIN
                              conversation_contexts[tasks[k].room_id].messages :
                           LET m == conversation_contexts[tasks[k].room_id]
                                        .messages[i]
                           IN  /\ m.sender = admin_config.bot_name
                               /\ m.text = tasks[k].bot_reply)
    /\ [][call'.op = "ws_disconnect" => tasks' = tasks]_vars

\* C23 witness: "a" left while the task for a's message slept; the task has
\* ended, "b", still connected, has received the reply and the reply is the
\* last message of the context.
C23_Witness ==
    \E k \in DOMAIN tasks :
        /\ RepliedAfterSenderLeft(k)
        /\ tasks[k].user_id = "a"
        /\ "ws1" \in closed
        /\ "ws2" \in DOMAIN conns
        /\ Contains(inbox["ws2"], ReplyFrame(k))
        /\ LET m == conversation_contexts[tasks[k].room_id].messages
           IN  m[Len(m)].text = tasks[k].bot_reply

\* The steps of bot_reply_task: Scheduled is "created" and "sleep",
\* Generating is "generate", Broadcasting is "send", Done is "done" after a
\* broadcast, Aborted is "skipped" and "done" without a broadcast.
TaskSteps ==
    {<<"created", "sleep">>, <<"created", "skipped">>, <<"sleep", "generate">>,
     <<"generate", "send">>, <<"generate", "done">>, <<"send", "send">>,
     <<"send", "done">>}

\* The task k has neither sent a frame nor appended a reply.
Silent(k) ==
    /\ tasks[k].fan.room_id = None
    /\ tasks[k].fan.got = <<>>
    /\ ~tasks[k].saved

\* The frames of the bot that the connection w has received.
BotFrames(w) ==
    {p \in DOMAIN inbox[w] :
        StartsWith(inbox[w][p], admin_config.bot_name \o ": ")}

\* C25: a reply task moves from Scheduled to Generating to Broadcasting to
\* Done, or leaves at a checkpoint; it sends nothing and records nothing
\* before generate_response has returned, nor when the reply is empty; it
\* broadcasts one frame only, to each connection at most once (a connection
\* has received as many frames of the bot as there are tasks that sent it
\* one); and every task that was created ends.
C25_ReplyStateMachine ==
    /\ [](\A w \in DOMAIN inbox :
             Cardinality(BotFrames(w)) =
                 Cardinality({k \in DOMAIN tasks :
                                 Contains(tasks[k].fan.got, w)}))
    /\ [](\A k \in DOMAIN tasks :
             /\ tasks[k].pc \in {"created", "sleep", "skipped", "generate"} =>
                    Silent(k)
             /\ tasks[k].pc \in {"generate", "send"} => tasks[k].request # <<>>
             /\ (tasks[k].pc = "done" /\ tasks[k].bot_reply = "") => Silent(k)
             /\ \A x \in Range(tasks[k].fan.got) :
                    Cardinality(Positions(tasks[k].fan.got, x)) = 1)
    /\ [][\A k \in DOMAIN tasks :
             /\ tasks'[k].pc # tasks[k].pc =>
                    <<tasks[k].pc, tasks'[k].pc>> \in TaskSteps
             /\ tasks[k].fan.room_id # None =>
                    tasks'[k].fan.frame = tasks[k].fan.frame]_vars
    /\ \A k \in 1..MaxFrames :
           [](k \in DOMAIN tasks =>
                 <>(/\ k \in DOMAIN tasks
                    /\ tasks[k].pc \in {"done", "skipped"}))

\* C25 witness: a task has ended after a broadcast that reached both
\* connections, and its reply is in the context.
C25_Witness ==
    \E k \in DOMAIN tasks :
        /\ tasks[k].pc = "done"
        /\ tasks[k].bot_reply # ""
        /\ tasks[k].fan.got = <<"ws1", "ws2">>
        /\ tasks[k].saved

----------------------------------------------------------------------------
(* Claims about the group size (checked under SpecConfig and SpecQueue) *)

\* C26: join_queue and match_group compare the length of the queue with the
\* group_size that AdminConfig holds when they are called: a join_queue that
\* appends, and a match_group, take a batch exactly when the queue is at
\* least that long.
C26_CurrentGroupSize ==
    [][/\ (call'.op = "join_queue" /\ call'.outcome # "already_queued") =>
              (call'.taken <=>
                   QueueLenOf(queues, call'.condition) + 1
                       >= admin_config.group_size)
       /\ call'.op = "match_group" =>
              (call'.taken <=>
                   QueueLenOf(queues, call'.condition)
                       >= admin_config.group_size)]_vars

\* C27: when a queue already holds at least group_size participants (the
\* group size was decreased), the next join_queue on that condition, by a
\* new participant or by one who is waiting there and polls again, takes the
\* batch of the first group_size participants of the queue.
C27_FlushAfterDecrease ==
    [][(/\ call'.op \in {"join_queue", "match"}
        /\ call'.condition \in DOMAIN queues
        /\ Len(queues[call'.condition]) >= admin_config.group_size
        /\ \/ call'.uid \notin DOMAIN user_to_queue
           \/ user_to_queue[call'.uid] = call'.condition) =>
           /\ call'.taken
           /\ call'.group =
                  SubSeq(queues[call'.condition], 1, admin_config.group_size)]_vars

\* C28: a join_queue by a participant who is queued under some condition
\* returns no match and leaves the content of every queue and the reverse
\* index as they were; a leave_queue of a participant who is not in the
\* queue of the condition it names leaves that content, and the
\* participant's entry for another condition, as they were.
C28_RejectedCallsChangeNothing ==
    [][/\ (call'.op = "join_queue" /\ call'.uid \in DOMAIN user_to_queue) =>
              /\ call'.ret = None
              /\ ~call'.taken
              /\ \A c \in Conditions : QueueOf(queues', c) = QueueOf(queues, c)
              /\ user_to_queue' = user_to_queue
       /\ (call'.op = "leave_queue"
               /\ ~Contains(QueueOf(queues, call'.condition), call'.uid)) =>
              /\ \A c \in Conditions : QueueOf(queues', c) = QueueOf(queues, c)
              /\ (call'.uid \in DOMAIN user_to_queue
                      /\ user_to_queue[call'.uid] # call'.condition) =>
                     /\ call'.uid \in DOMAIN user_to_queue'
                     /\ user_to_queue'[call'.uid] = user_to_queue[call'.uid]]_vars

----------------------------------------------------------------------------
(* Claims about the room registry (checked under SpecRoom) *)

----------------------------------------------------------------------------
(* Claims about ended rooms (checked under SpecReply) *)

\* C30: when the administrator has ended a room there is no context for it
\* in memory, and a frame that then arrives on a connection that was open in
\* the room is delivered to nobody, creates no reply task and re-creates
\* neither a context nor a bot for the room.
C30_EndedRoomReleased ==
    /\ []((call.op = "end_room_admin" /\ call.outcome = "success") =>
              /\ call.room_id \notin DOMAIN active_rooms
              /\ call.room_id \notin DOMAIN conversation_contexts)
    /\ [][(/\ call.op = "end_room_admin"
            /\ call.outcome = "success"
            /\ call'.op = "ws_receive"
            /\ call'.room_id = call.room_id) =>
               /\ inbox' = inbox
               /\ tasks' = tasks
               /\ call.room_id \notin DOMAIN conversation_contexts'
               /\ call.room_id \notin DOMAIN bot_instances']_vars

----------------------------------------------------------------------------
(* Claims about the bot's name (checked under SpecName) *)

\* The profiles of the room's context, none when there is no context.
ProfilesOf(contexts, room_id) ==
    IF room_id \in DOMAIN contexts THEN contexts[room_id].user_profiles
    ELSE EmptyDict

\* The message_count of the participant's profile, 0 without a profile.
MessageCountOf(contexts, room_id, uid) ==
    IF uid \in DOMAIN ProfilesOf(contexts, room_id)
    THEN ProfilesOf(contexts, room_id)[uid].message_count ELSE 0

\* The reply tasks that append their reply to the context in this step.
Saving == {k \in DOMAIN tasks : tasks'[k].saved /\ ~tasks[k].saved}

\* A reply saved in this step is the last message of the log and leaves
\* the profiles as they were.
BotReplyNotProfiled ==
    \A k \in Saving :
        LET r == tasks[k].room_id
            log == conversation_contexts'[r].messages
        IN  /\ Len(log) = Len(conversation_contexts[r].messages) + 1
            /\ log[Len(log)].text = tasks'[k].bot_reply
            /\ ProfilesOf(conversation_contexts', r)
                   = ProfilesOf(conversation_contexts, r)

\* A frame received in this step adds one to its sender's message_count.
ParticipantProfiled ==
    call'.op = "ws_receive" =>
        MessageCountOf(conversation_contexts', call'.room_id, call'.uid)
            = MessageCountOf(conversation_contexts, call'.room_id, call'.uid) + 1

\* C31: whatever the bot is called, a reply that a reply task appends to a
\* context is added to the log and touches no profile, and every message of
\* a participant, whatever their identifier, updates their profile.
C31_BotExcludedFromProfiles ==
    [][BotReplyNotProfiled /\ ParticipantProfiled]_vars

\* C36: the frame of a bot reply that was broadcast is the sender recorded
\* for that reply in the room's context, then ": ", then its text: both
\* carry the same bot name, also when the name is changed while the fan-out
\* waits in a send.
C36_OneNameForOneReply ==
    [][\A k \in Saving :
          LET log == conversation_contexts'[tasks[k].room_id].messages
              saved == log[Len(log)]
          IN  tasks'[k].fan.room_id # None =>
                  tasks'[k].fan.frame = saved.sender \o ": " \o saved.text]_vars

----------------------------------------------------------------------------
(* Claims about the statistics (checked under SpecActive and SpecSummary) *)

\* C32: get_statistics reports is_active exactly when less than 300 seconds
\* have passed since the last activity of the context, however long the
\* span.
C32_ActiveWithin300 ==
    [][call'.op = "get_statistics" =>
          (call'.ret <=>
               now' - conversation_contexts[call'.room_id].last_activity < 300)]_vars

\* C33: get_context_summary(n) lists the most recent min(n, N) of the N
\* stored messages, in log order and with their turn numbers, for every
\* n >= 0, and the count in its header is the number of messages listed.
C33_SummaryListsRecent ==
    [][call'.op = "get_context_summary" =>
          LET log == conversation_contexts[call'.room_id].messages
              k == Min(call'.ret.num_messages, Len(log))
              listed == call'.ret.summary.lines
              headers == call'.ret.summary.headers
          IN  /\ listed = [i \in 1..k |->
                              summary_line(log[Len(log) - k + i])]
              /\ \A i \in DOMAIN headers : headers[i] = Len(listed)]_vars

----------------------------------------------------------------------------
(* Claims about the text generator (checked under SpecGenerate) *)

\* The reply tasks whose call of generate_response ends in this step.
Returning == {k \in DOMAIN tasks : tasks[k].pc = "generate"
                                      /\ tasks'[k].pc # "generate"}

\* The task k has ended with a reply that is a fallback.
FellBack(k) ==
    /\ tasks[k].pc = "done"
    /\ tasks[k].bot_reply \in fallback_replies

C35_RegisteredBotGenerates ==
    [][\A k \in DOMAIN tasks :
          (tasks[k].pc = "sleep" /\ tasks'[k].pc = "generate") =>
              /\ tasks[k].room_id \in DOMAIN bot_instances
              /\ bot_instances[tasks[k].room_id] = tasks[k].bot]_vars

\* The sum of the values of the function f over the set S of its arguments.
RECURSIVE SumOver(_, _)
SumOver(f, S) ==
    IF S = {} THEN 0
    ELSE LET x == CHOOSE y \in S : TRUE
         IN  f[x] + SumOver(f, S \ {x})

\* C37: in the statistics of every context the message counts of the
\* participants add up to at most total_messages, also after messages were
\* evicted at the cap or dropped by clear_old_messages.
C37_CountsWithinTotal ==
    \A r \in DOMAIN conversation_contexts :
        LET stats == get_statistics(conversation_contexts[r])
        IN  SumOver(stats.participant_messages,
                    DOMAIN stats.participant_messages)
                <= stats.total_messages

----------------------------------------------------------------------------
(* Claims about the requests to the API (checked under SpecPrompt) *)

\* The reply tasks that hand their request to the API in this step.
Requesting == {k \in DOMAIN tasks : tasks[k].pc = "sleep"
                                       /\ tasks'[k].pc = "generate"}

\* C38: a request handed to the API is one system message, the prompt the
\* bot has at that time, which is not blank, followed by the last
\* min(10, H) of the H entries of the bot's history in their order, the
\* last being the message that triggered the request; so it is when
\* other requests of the same bot are in flight.
C38_RequestShape ==
    [][\A k \in Requesting :
          LET req == tasks'[k].request
              b == tasks[k].bot
              history == bots'[b].conversation_history
              H == Len(history)
              n == Min(10, H)
          IN  /\ H = Len(bots[b].conversation_history) + 1
              /\ Len(req) = n + 1
              /\ req[1] = [role |-> "system",
                           content |-> bots[b].system_prompt]
              /\ ~IsBlank(req[1].content)
              /\ \A i \in 1..n :
                     /\ req[i + 1] = history[H - n + i]
                     /\ req[i + 1].role # "system"
              /\ req[Len(req)] =
                     [role |-> "user",
                      content |-> tasks[k].user_id \o ": "
                                      \o tasks[k].user_message]]_vars

\* Two requests of one bot are in flight, and the history from which the
\* later one was cut is longer than 10.
C38_Witness ==
    \E k, j \in DOMAIN tasks :
        /\ k # j
        /\ tasks[k].bot = tasks[j].bot
        /\ tasks[k].pc = "generate"
        /\ tasks[j].pc = "generate"
        /\ Len(bots[tasks[k].bot].conversation_history) > 10
        /\ Len(tasks[j].request) = 11

=============================================================================
